---- MODULE Spec2Model ----
(***************************************************************************)
(* Model of mt8000a_commands.py: the command encoders of MT8000A and       *)
(* MT8821C, the call-connection poller wait_for_call_connected, the        *)
(* write and query methods of the two Session classes, and the three       *)
(* example workflows.  Four specifications share the variables:            *)
(*   Spec          one encoder call after another                          *)
(*   SpecPoller    one invocation of wait_for_call_connected               *)
(*   SpecSession   one caller building commands and passing them to write  *)
(*                 and query of either class over one transport            *)
(*   SpecWorkflow  one run of an example function                          *)
(*                                                                         *)
(* Text is modelled character by character: a Python str is a sequence of  *)
(* one-character strings, so that separators, trailing spaces and          *)
(* substrings are visible to the properties.                               *)
(***************************************************************************)
EXTENDS Integers, Sequences, FiniteSets, TLC

(***************************************************************************)
(* Bounds of the model.                                                    *)
(***************************************************************************)
\* largest averaging count / numeric argument drawn as an input
MaxNum == 2
\* largest number of arguments passed to a variadic encoder
MaxArgs == 2
\* largest timeout_s drawn for the poller
MaxTimeout == 2
\* largest poll_interval_s drawn for the poller
MaxInterval == 2
\* largest number of CALLSTAT? queries followed in one poller run
MaxQueries == 3
\* largest reading of the clock when the wait starts
MaxStart == 1
\* longest time one transport query takes
MaxQueryTime == 1
\* Session invocations one caller makes
MaxOps == 2

(***************************************************************************)
(* Python values.  Every value is a record of the same shape, tagged by    *)
(* its Python type: None, bool, int or str.                                *)
(***************************************************************************)
None == [t |-> "none", b |-> FALSE, n |-> 0, s |-> <<>>]
PyBool(b) == [t |-> "bool", b |-> b, n |-> 0, s |-> <<>>]
PyInt(n) == [t |-> "int", b |-> FALSE, n |-> n, s |-> <<>>]
PyText(s) == [t |-> "str", b |-> FALSE, n |-> 0, s |-> s]

\* Python truth value testing, as used by "if cc:", "if mode:", "if on".
Truthy(v) ==
    CASE v.t = "none" -> FALSE
      [] v.t = "bool" -> v.b
      [] v.t = "int" -> v.n # 0
      [] v.t = "str" -> v.s # <<>>

Digit(d) ==
    CASE d = 0 -> "0" [] d = 1 -> "1" [] d = 2 -> "2" [] d = 3 -> "3"
      [] d = 4 -> "4" [] d = 5 -> "5" [] d = 6 -> "6" [] d = 7 -> "7"
      [] d = 8 -> "8" [] d = 9 -> "9"

RECURSIVE NatStr(_)
NatStr(n) == IF n < 10 THEN <<Digit(n)>> ELSE NatStr(n \div 10) \o <<Digit(n % 10)>>

\* str(int): decimal digits, a leading "-" for a negative number.
IntStr(n) == IF n < 0 THEN <<"-">> \o NatStr(0 - n) ELSE NatStr(n)

\* str(v) / f"{v}": the default text of a Python value.
Format(v) ==
    CASE v.t = "none" -> <<"N", "o", "n", "e">>
      [] v.t = "bool" -> IF v.b THEN <<"T", "r", "u", "e">> ELSE <<"F", "a", "l", "s", "e">>
      [] v.t = "int" -> IntStr(v.n)
      [] v.t = "str" -> v.s

\* ",".join(str(a) for a in args)
RECURSIVE JoinComma(_)
JoinComma(args) ==
    IF args = <<>> THEN <<>>
    ELSE IF Len(args) = 1 THEN Format(args[1])
    ELSE Format(args[1]) \o <<",">> \o JoinComma(Tail(args))

\* 'ON' if on else 'OFF'
OnOff(on) == IF Truthy(on) THEN <<"O", "N">> ELSE <<"O", "F", "F">>

(***************************************************************************)
(* MT8000A: measurement enable, optionally with an averaging count.        *)
(***************************************************************************)
set_power_meas(on, avg) ==
    LET cmd == <<"P", "W", "R", "_", "M", "E", "A", "S", " ">> \o OnOff(on)
    IN  IF avg # None
        THEN cmd \o <<"P", "W", "R", "_", "A", "V", "G", " ">> \o Format(avg)
        ELSE cmd

set_mod_meas(on, avg) ==
    LET cmd == <<"M", "O", "D", "_", "M", "E", "A", "S", " ">> \o OnOff(on)
    IN  IF avg # None
        THEN cmd \o <<"M", "O", "D", "_", "A", "V", "G", " ">> \o Format(avg)
        ELSE cmd

set_sem_meas(on, avg) ==
    LET cmd == <<"S", "E", "M", "_", "M", "E", "A", "S", " ">> \o OnOff(on)
    IN  IF avg # None
        THEN cmd \o <<"S", "E", "M", "_", "A", "V", "G", " ">> \o Format(avg)
        ELSE cmd

set_power_temp_meas(on, avg) ==
    LET cmd == <<"P", "W", "R", "T", "E", "M", "P", "_", "M", "E", "A", "S", " ">> \o OnOff(on)
    IN  IF avg # None
        THEN cmd \o <<";", "P", "W", "R", "T", "E", "M", "P", "_", "A", "V", "G", " ">> \o Format(avg)
        ELSE cmd

(***************************************************************************)
(* Encoders with one boolean parameter.                                    *)
(***************************************************************************)
set_call_processing(on_off) == <<"C", "A", "L", "L", "P", "R", "O", "C", " ">> \o OnOff(on_off)

set_obw_meas(on) == <<"O", "B", "W", "M", "E", "A", "S", " ">> \o OnOff(on)

set_aclr_meas(on) == <<"A", "C", "L", "R", "_", "M", "E", "A", "S", " ">> \o OnOff(on)

set_throughput_meas(on) == <<"T", "P", "U", "T", "_", "M", "E", "A", "S", " ">> \o OnOff(on)

MT8821C_set_call_processing(on_off) == <<"C", "A", "L", "L", "P", "R", "O", "C", " ">> \o OnOff(on_off)

MT8821C_set_power_meas(on) == <<"P", "W", "R", "_", "M", "E", "A", "S", " ">> \o OnOff(on)

MT8821C_set_throughput_meas(on) == <<"T", "P", "U", "T", "_", "M", "E", "A", "S", " ">> \o OnOff(on)

(***************************************************************************)
(* Encoders of fixed arity over strings and numbers: the operation name,   *)
(* one space, and each argument formatted into its slot of the f-string.   *)
(* opc and the presets take no argument and return a literal.              *)
(***************************************************************************)
opc == <<"*", "O", "P", "C", "?">>

preset == <<"P", "R", "E", "S", "E", "T">>

preset_sa == <<"P", "R", "E", "S", "E", "T", "_", "S", "A">>

set_ran_operation(mode) == <<"R", "A", "N", "O", "P", " ">> \o Format(mode)

set_remote_destination(dest) == <<"R", "E", "M", "_", "D", "E", "S", "T", " ">> \o Format(dest)

set_test_interface(slot, interface) ==
    <<"T", "E", "S", "T", "I", "F", " ">> \o Format(slot) \o <<",">> \o Format(interface)

set_system_select(system_num) == <<"S", "Y", "S", "S", "E", "L", " ">> \o Format(system_num)

set_band(cc, band) == <<"B", "A", "N", "D", " ">> \o Format(cc) \o <<",">> \o Format(band)

\* variant: the bandwidth is normalised to upper case before it is encoded
set_dl_bandwidth_normalised(cc, bw) ==
    <<"D", "L", "B", "A", "N", "D", "W", "I", "D", "T", "H", " ">> \o Format(cc) \o <<",">> \o [i \in 1..Len(Format(bw)) |->
        IF Format(bw)[i] = "m" THEN "M" ELSE IF Format(bw)[i] = "h" THEN "H"
        ELSE IF Format(bw)[i] = "z" THEN "Z" ELSE Format(bw)[i]]

set_dl_bandwidth(cc, bw) ==
    <<"D", "L", "B", "A", "N", "D", "W", "I", "D", "T", "H", " ">> \o Format(cc) \o <<",">> \o Format(bw)

set_early_decision(mode) == <<"E", "A", "R", "L", "Y", "_", "D", "E", "C", "I", "S", "I", "O", "N", " ">> \o Format(mode)

MT8821C_set_band(band) == <<"B", "A", "N", "D", " ">> \o Format(band)

MT8821C_set_bandwidth(bw) == <<"B", "A", "N", "D", "W", "I", "D", "T", "H", " ">> \o Format(bw)

call_sa == <<"C", "A", "L", "L", "S", "A">>

all_meas_items_off == <<"A", "L", "L", "M", "E", "A", "S", "I", "T", "E", "M", "S", "_", "O", "F", "F">>

sweep == <<"S", "W", "P">>

query_meas_status == <<"M", "S", "T", "A", "T", "?">>

query_power == <<"P", "O", "W", "E", "R", "?">>

query_evm == <<"E", "V", "M", "?">>

query_carrier_leakage == <<"C", "A", "R", "R", "L", "E", "A", "K", "?">>

MT8821C_preset == <<"P", "R", "E", "S", "E", "T">>

MT8821C_call_sa == <<"C", "A", "L", "L", "S", "A">>

\* variant: the system number is tested for truth, like a qualifier
query_system_select_truthy(system_num) ==
    IF Truthy(system_num)
    THEN <<"S", "Y", "S", "S", "E", "L", "?">> \o <<" ">> \o Format(system_num)
    ELSE <<"S", "Y", "S", "S", "E", "L", "?">>

\* if system_num is not None: return f"SYSSEL? {system_num}"; return "SYSSEL?"
query_system_select(system_num) ==
    IF system_num # None
    THEN <<"S", "Y", "S", "S", "E", "L", "?">> \o <<" ">> \o Format(system_num)
    ELSE <<"S", "Y", "S", "S", "E", "L", "?">>

\* variant: the command token names the slot that was passed
set_box2_slot_by_slot(slot, trx, value) ==
    IF value # None
    THEN <<"B", "O", "X", "2", "_">> \o Format(slot) \o <<" ">> \o Format(trx) \o <<",">> \o Format(value)
    ELSE <<"B", "O", "X", "2", "_">> \o Format(slot) \o <<" ">> \o Format(trx)

\* the token is the literal BOX2_SLOT1; slot is not read
set_box2_slot(slot, trx, value) ==
    IF value # None
    THEN <<"B", "O", "X", "2", "_", "S", "L", "O", "T", "1", " ">> \o Format(trx) \o <<",">> \o Format(value)
    ELSE <<"B", "O", "X", "2", "_", "S", "L", "O", "T", "1", " ">> \o Format(trx)

\* cmd = "TPUT?"; if per_cc: cmd += f" {per_cc}"; if cc: cmd += f",{cc}"
query_throughput(per_cc, cc) ==
    <<"T", "P", "U", "T", "?">>
    \o (IF Truthy(per_cc)
        THEN <<" ">> \o Format(per_cc) \o (IF Truthy(cc) THEN <<",">> \o Format(cc) ELSE <<>>)
        ELSE <<>>)

\* The other encoders the example workflows call (set_sim_model,
\* set_integrity, set_dl_scs, set_dl_channel, set_tpc_pattern, ...) are each
\* one return of an f-string: the operation name, a space, and the
\* parameters in order with commas between them.
Encoded(operation, a) == operation \o <<" ">> \o JoinComma(a)

(***************************************************************************)
(* Encoders with an optional carrier-component qualifier before a value.   *)
(* set_test_slot and set_frame_type test the qualifier for truth ("if      *)
(* cc:"); set_input_level and set_additional_spectrum_emission_value test  *)
(* the second argument for absence ("is not None").                        *)
(***************************************************************************)
set_test_slot(slot, cc) ==
    IF Truthy(cc)
    THEN <<"T", "E", "S", "T", "S", "L", "O", "T", " ">> \o Format(cc) \o <<",">> \o Format(slot)
    ELSE <<"T", "E", "S", "T", "S", "L", "O", "T", " ">> \o Format(slot)

\* variant: the qualifier is tested for absence, like set_input_level's value
set_frame_type_absence(mode, cc) ==
    IF cc # None
    THEN <<"F", "R", "A", "M", "E", "T", "Y", "P", "E", " ">> \o Format(cc) \o <<",">> \o Format(mode)
    ELSE <<"F", "R", "A", "M", "E", "T", "Y", "P", "E", " ">> \o Format(mode)

set_frame_type(mode, cc) ==
    IF Truthy(cc)
    THEN <<"F", "R", "A", "M", "E", "T", "Y", "P", "E", " ">> \o Format(cc) \o <<",">> \o Format(mode)
    ELSE <<"F", "R", "A", "M", "E", "T", "Y", "P", "E", " ">> \o Format(mode)

set_input_level(cc_or_value, value) ==
    IF value # None
    THEN <<"I", "L", "V", "L", " ">> \o Format(cc_or_value) \o <<",">> \o Format(value)
    ELSE <<"I", "L", "V", "L", " ">> \o Format(cc_or_value)

set_additional_spectrum_emission_value(cc_or_value, value) ==
    IF value # None
    THEN <<"A", "D", "D", "S", "P", "E", "M", "V", "A", "L", "U", "E", " ">> \o Format(cc_or_value) \o <<",">> \o Format(value)
    ELSE <<"A", "D", "D", "S", "P", "E", "M", "V", "A", "L", "U", "E", " ">> \o Format(cc_or_value)

(***************************************************************************)
(* Variadic query encoders: cmd = "OP?", then " " + join when args is not  *)
(* the empty tuple.                                                        *)
(***************************************************************************)
query_channel_power(a) ==
    LET cmd == <<"C", "H", "P", "W", "R", "?">>
    IN  IF a # <<>> THEN cmd \o <<" ">> \o JoinComma(a) ELSE cmd

\* variant: the separating space is appended whether or not args is empty
query_aclr_always_space(a) == <<"A", "C", "L", "R", "?", " ">> \o JoinComma(a)

query_aclr(a) ==
    LET cmd == <<"A", "C", "L", "R", "?">>
    IN  IF a # <<>> THEN cmd \o <<" ">> \o JoinComma(a) ELSE cmd

query_inband_emission_general(a) ==
    LET cmd == <<"I", "N", "B", "A", "N", "D", "E", "_", "G", "E", "N", "?">>
    IN  IF a # <<>> THEN cmd \o <<" ">> \o JoinComma(a) ELSE cmd

query_inband_emission_leakage(a) ==
    LET cmd == <<"I", "N", "B", "A", "N", "D", "E", "_", "L", "E", "A", "K", "?">>
    IN  IF a # <<>> THEN cmd \o <<" ">> \o JoinComma(a) ELSE cmd

query_inband_emission_margin(a) ==
    LET cmd == <<"I", "N", "B", "A", "N", "D", "E", "_", "M", "A", "R", "G", "?">>
    IN  IF a # <<>> THEN cmd \o <<" ">> \o JoinComma(a) ELSE cmd

query_inband_emission_margin_eutra(a) ==
    LET cmd == <<"I", "N", "B", "A", "N", "D", "E", "_", "M", "A", "R", "G", "_", "E", "U", "T", "R", "A", "?">>
    IN  IF a # <<>> THEN cmd \o <<" ">> \o JoinComma(a) ELSE cmd

query_power_temp(a) ==
    LET cmd == <<"P", "W", "R", "T", "E", "M", "P", "?">>
    IN  IF a # <<>> THEN cmd \o <<" ">> \o JoinComma(a) ELSE cmd

(***************************************************************************)
(* Variadic setters: f"OP {','.join(...)}".                                *)
(***************************************************************************)
set_loss_table_value(a) == <<"L", "O", "S", "S", "T", "B", "L", "V", "A", "L", " ">> \o JoinComma(a)

set_ul_alloc_list(a) == <<"U", "L", "A", "L", "L", "O", "C", "L", "I", "S", "T", " ">> \o JoinComma(a)

(***************************************************************************)
(* Query encoders with an optional suffix mode (default "").               *)
(***************************************************************************)
query_sem_pass(mode) ==
    LET cmd == <<"S", "E", "M", "P", "A", "S", "S", "?">>
    IN  IF Truthy(mode) THEN cmd \o <<" ">> \o Format(mode) ELSE cmd

query_ttl_worst_sem(mode) ==
    LET cmd == <<"T", "T", "L", "_", "W", "O", "R", "S", "T", "_", "S", "E", "M", "?">>
    IN  IF Truthy(mode) THEN cmd \o <<" ">> \o Format(mode) ELSE cmd

query_ttl_worst_sem_level(mode) ==
    LET cmd == <<"T", "T", "L", "_", "W", "O", "R", "S", "T", "_", "S", "E", "M", "_", "L", "V", "?">>
    IN  IF Truthy(mode) THEN cmd \o <<" ">> \o Format(mode) ELSE cmd

\* variant: the mode is appended like a further argument, after a comma
query_pct_power_e1_comma(mode) ==
    LET cmd == <<"P", "C", "T", "P", "W", "R", "E", "1", "?">>
    IN  IF Truthy(mode) THEN cmd \o <<",">> \o Format(mode) ELSE cmd

query_pct_power_e1(mode) ==
    LET cmd == <<"P", "C", "T", "P", "W", "R", "E", "1", "?">>
    IN  IF Truthy(mode) THEN cmd \o <<" ">> \o Format(mode) ELSE cmd

query_throughput_bler(cc) ==
    LET cmd == <<"T", "P", "U", "T", "_", "B", "L", "E", "R", "?">>
    IN  IF Truthy(cc) THEN cmd \o <<" ">> \o Format(cc) ELSE cmd

query_throughput_bler_count(cc) ==
    LET cmd == <<"T", "P", "U", "T", "_", "B", "L", "E", "R", "C", "N", "T", "?">>
    IN  IF Truthy(cc) THEN cmd \o <<" ">> \o Format(cc) ELSE cmd

query_throughput_bler_count_nack(cc) ==
    LET cmd == <<"T", "P", "U", "T", "_", "B", "L", "E", "R", "C", "N", "T", "N", "A", "C", "K", "?">>
    IN  IF Truthy(cc) THEN cmd \o <<" ">> \o Format(cc) ELSE cmd

query_throughput_bler_count_dtx(cc) ==
    LET cmd == <<"T", "P", "U", "T", "_", "B", "L", "E", "R", "C", "N", "T", "D", "T", "X", "?">>
    IN  IF Truthy(cc) THEN cmd \o <<" ">> \o Format(cc) ELSE cmd

(***************************************************************************)
(* Text operations of the poller: str.strip(), str.upper(), "x in y".      *)
(***************************************************************************)
Whitespace == {" ", "\t", "\n", "\r"}

LowerLetters == <<"a", "b", "c", "d", "e", "f", "g", "h", "i", "j", "k", "l", "m",
                  "n", "o", "p", "q", "r", "s", "t", "u", "v", "w", "x", "y", "z">>
UpperLetters == <<"A", "B", "C", "D", "E", "F", "G", "H", "I", "J", "K", "L", "M",
                  "N", "O", "P", "Q", "R", "S", "T", "U", "V", "W", "X", "Y", "Z">>

\* str.strip(): leading and trailing whitespace removed
RECURSIVE Strip(_)
Strip(text) ==
    IF text = <<>> THEN text
    ELSE IF Head(text) \in Whitespace THEN Strip(Tail(text))
    ELSE IF text[Len(text)] \in Whitespace THEN Strip(SubSeq(text, 1, Len(text) - 1))
    ELSE text

UpperChar(c) ==
    IF \E i \in 1..26 : LowerLetters[i] = c
    THEN UpperLetters[CHOOSE i \in 1..26 : LowerLetters[i] = c]
    ELSE c

\* str.upper()
Upper(text) == [i \in 1..Len(text) |-> UpperChar(text[i])]

\* "needle in text": needle occurs as a contiguous substring
Contains(text, needle) ==
    \E i \in 1..(Len(text) - Len(needle) + 1) :
        SubSeq(text, i, i + Len(needle) - 1) = needle

(***************************************************************************)
(* MT8000A.query_call_status and the tests of wait_for_call_connected.     *)
(***************************************************************************)
query_call_status == <<"C", "A", "L", "L", "S", "T", "A", "T", "?">>

\* variant: the status code "6" is not recognised
IsConnectedTextOnly(status) == Contains(Upper(status), <<"C", "O", "N", "N", "E", "C", "T", "E", "D">>)

\* variant: the comparison is case-sensitive
IsConnectedCaseSensitive(status) ==
    \/ Contains(status, <<"C", "O", "N", "N", "E", "C", "T", "E", "D">>)
    \/ status = <<"6">>

\* "CONNECTED" in status.upper() or status == "6"
IsConnected(status) ==
    \/ Contains(Upper(status), <<"C", "O", "N", "N", "E", "C", "T", "E", "D">>)
    \/ status = <<"6">>

\* variant: the elapsed time is not measured from the start of the wait
LoopConditionFromZero(t, t0, timeout) == t < timeout

\* variant: the loop has no deadline
LoopForever(t, t0, timeout) == TRUE

\* while time.time() - start < timeout_s
LoopCondition(t, t0, timeout) == t - t0 < timeout

\* variant: the timeout is raised as an exception
TimeoutRaises == [result |-> "none", raised |-> "TimeoutError"]

\* after the loop: logger.warning(...); return False
TimeoutOutcome == [result |-> "False", raised |-> "none"]

(***************************************************************************)
(* State.                                                                  *)
(*   enc   the encoder last called ("" before the first call)              *)
(*   args  the arguments it was called with, as Python values              *)
(*   ret   the value it returned: one str                                  *)
(* and, of one invocation of wait_for_call_connected:                      *)
(*   pc               where the invocation stands: "idle" before the call, *)
(*                    "test" at the loop condition, "poll" before the      *)
(*                    status query, "reply" while the query is with the    *)
(*                    transport, "sleep" in time.sleep, "done" after it    *)
(*                    returned or raised                                   *)
(*   timeout_s, poll_interval_s   its arguments                            *)
(*   start            the local variable start                             *)
(*   now              the reading of time.time()                           *)
(*   query_s          the time one transport query takes                   *)
(*   wire             the transport operations performed, in order         *)
(*   replies          the raw replies the transport returned, in order     *)
(*   result           the value returned: "none" before, "True", "False"   *)
(*   raised           the exception that left the call, "none" if none     *)
(*   answers          what the transport gave back for the operations of   *)
(*                    wire, in order: an operation of wire without its     *)
(*                    answer is in flight                                  *)
(* and, of the caller and the two Session classes MT8000A and MT8821C,     *)
(* which wrap the same transport:                                          *)
(*   caller    "ready", or "in_write" / "in_query" while it is inside      *)
(*             Session.write / Session.query                               *)
(*   via       the class whose method the caller is inside                 *)
(*   issued    the Session invocations the caller made, in order           *)
(*   outcomes  what each completed invocation gave the caller: the value   *)
(*             returned or the exception raised                            *)
(* and, of one run of an example workflow, which drives the transport      *)
(* directly:                                                               *)
(*   flow      the example function running, "none" before the call        *)
(*   step      the statement it stands at, 0 before and after the run      *)
(* with result = "returned" once the example returned its dict and raised  *)
(* the exception that left it.                                             *)
(***************************************************************************)
VARIABLES enc, args, ret,
          pc, timeout_s, poll_interval_s, start, now, query_s, wire, replies, result, raised,
          answers, caller, via, issued, outcomes,
          flow, step

encVars == <<enc, args, ret>>
pollVars == <<pc, timeout_s, poll_interval_s, start, now, query_s, wire, replies, result, raised>>
sessVars == <<answers, caller, via, issued, outcomes>>
flowVars == <<flow, step>>
vars == <<enc, args, ret,
          pc, timeout_s, poll_interval_s, start, now, query_s, wire, replies, result, raised,
          answers, caller, via, issued, outcomes,
          flow, step>>

\* Inputs of the encoders.
Bools == {PyBool(TRUE), PyBool(FALSE)}
Counts == {PyInt(n) : n \in 0..MaxNum}
OptCounts == Counts \cup {None}
\* carrier-component qualifiers a caller may pass: omitted, empty, or a selector
OptCC == {None, PyText(<<>>), PyText(<<"P", "C", "C">>), PyText(<<"S", "C", "C", "1">>)}
\* values that follow a qualifier: enumerants and numbers
Values == {PyText(<<"S", "L", "O", "T", "1">>), PyText(<<"T", "D", "D">>), PyInt(0), PyInt(-1), PyInt(23)}
\* arguments of the variadic encoders
ArgValues == {PyInt(1), PyInt(10), PyText(<<"S", "C", "C", "1">>)}
ArgTuples == UNION {[1..k -> ArgValues] : k \in 0..MaxArgs}
\* suffix modes: the default "" or a mode token
Modes == {PyText(<<>>), PyText(<<"S", "U", "M">>), PyText(<<"P", "C", "C">>)}

\* arguments of the fixed-arity encoders: enumerants the instrument knows,
\* enumerants it does not, the empty text, numbers in and out of range,
\* and values of another type than the annotation
RanModes == {PyText(<<"S", "A">>), PyText(<<"N", "S", "A">>), PyText(<<"5", "G">>)}
Dests == {PyText(<<"8", "0", "0", "0", "A">>), PyText(<<"8", "8", "2", "1", "C">>)}
Carriers == {PyText(<<"P", "C", "C">>), PyText(<<"S", "C", "C", "9">>), PyText(<<>>)}
Bandwidths == {PyText(<<"1", "0", "0", "M", "H", "Z">>), PyText(<<"1", "0", "0", "m", "h", "z">>), PyInt(-1), None}
Bands == {PyInt(78), PyInt(0), PyInt(-1), PyText(<<"n", "7", "8">>)}
Decisions == {PyText(<<"O", "N">>), PyText(<<"O", "F", "F">>), PyBool(TRUE), PyBool(FALSE)}

\* slots and transceivers of the 2-box configuration
Slots == {PyText(<<"S", "L", "O", "T", "1">>), PyText(<<"S", "L", "O", "T", "2">>)}
Trxs == {PyText(<<"T", "R", "X", "1">>), PyText(<<"T", "R", "X", "2">>)}

\* No encoder called, no wait started.
NoCall ==
    /\ enc = ""
    /\ args = <<>>
    /\ ret = <<>>

NoWait ==
    /\ pc = "idle"
    /\ timeout_s = 0
    /\ poll_interval_s = 0
    /\ start = 0
    /\ wire = <<>>
    /\ replies = <<>>
    /\ result = "none"
    /\ raised = "none"

\* The Sessions constructed, nothing sent, the caller outside any method.
NoTraffic ==
    /\ answers = <<>>
    /\ caller = "ready"
    /\ via = ""
    /\ issued = <<>>
    /\ outcomes = <<>>

\* No example called.
NoExample ==
    /\ flow = "none"
    /\ step = 0

Init ==
    /\ NoCall
    /\ NoWait
    /\ NoTraffic
    /\ NoExample
    /\ now = 0
    /\ query_s = 0

\* One action per encoder: the call with its arguments, and the str returned.
Call_set_power_meas ==
    \E on \in Bools, avg \in OptCounts :
        /\ enc' = "set_power_meas"
        /\ args' = <<on, avg>>
        /\ ret' = set_power_meas(on, avg)
        /\ UNCHANGED <<pollVars, sessVars, flowVars>>

Call_set_mod_meas ==
    \E on \in Bools, avg \in OptCounts :
        /\ enc' = "set_mod_meas"
        /\ args' = <<on, avg>>
        /\ ret' = set_mod_meas(on, avg)
        /\ UNCHANGED <<pollVars, sessVars, flowVars>>

Call_set_sem_meas ==
    \E on \in Bools, avg \in OptCounts :
        /\ enc' = "set_sem_meas"
        /\ args' = <<on, avg>>
        /\ ret' = set_sem_meas(on, avg)
        /\ UNCHANGED <<pollVars, sessVars, flowVars>>

Call_set_power_temp_meas ==
    \E on \in Bools, avg \in OptCounts :
        /\ enc' = "set_power_temp_meas"
        /\ args' = <<on, avg>>
        /\ ret' = set_power_temp_meas(on, avg)
        /\ UNCHANGED <<pollVars, sessVars, flowVars>>

Call_set_call_processing ==
    \E on \in Bools :
        /\ enc' = "set_call_processing"
        /\ args' = <<on>>
        /\ ret' = set_call_processing(on)
        /\ UNCHANGED <<pollVars, sessVars, flowVars>>

Call_set_obw_meas ==
    \E on \in Bools :
        /\ enc' = "set_obw_meas"
        /\ args' = <<on>>
        /\ ret' = set_obw_meas(on)
        /\ UNCHANGED <<pollVars, sessVars, flowVars>>

Call_set_aclr_meas ==
    \E on \in Bools :
        /\ enc' = "set_aclr_meas"
        /\ args' = <<on>>
        /\ ret' = set_aclr_meas(on)
        /\ UNCHANGED <<pollVars, sessVars, flowVars>>

Call_set_throughput_meas ==
    \E on \in Bools :
        /\ enc' = "set_throughput_meas"
        /\ args' = <<on>>
        /\ ret' = set_throughput_meas(on)
        /\ UNCHANGED <<pollVars, sessVars, flowVars>>

Call_MT8821C_set_call_processing ==
    \E on \in Bools :
        /\ enc' = "MT8821C_set_call_processing"
        /\ args' = <<on>>
        /\ ret' = MT8821C_set_call_processing(on)
        /\ UNCHANGED <<pollVars, sessVars, flowVars>>

Call_MT8821C_set_power_meas ==
    \E on \in Bools :
        /\ enc' = "MT8821C_set_power_meas"
        /\ args' = <<on>>
        /\ ret' = MT8821C_set_power_meas(on)
        /\ UNCHANGED <<pollVars, sessVars, flowVars>>

Call_MT8821C_set_throughput_meas ==
    \E on \in Bools :
        /\ enc' = "MT8821C_set_throughput_meas"
        /\ args' = <<on>>
        /\ ret' = MT8821C_set_throughput_meas(on)
        /\ UNCHANGED <<pollVars, sessVars, flowVars>>

Call_set_test_slot ==
    \E v \in Values, cc \in OptCC :
        /\ enc' = "set_test_slot"
        /\ args' = <<v, cc>>
        /\ ret' = set_test_slot(v, cc)
        /\ UNCHANGED <<pollVars, sessVars, flowVars>>

Call_set_frame_type ==
    \E v \in Values, cc \in OptCC :
        /\ enc' = "set_frame_type"
        /\ args' = <<v, cc>>
        /\ ret' = set_frame_type(v, cc)
        /\ UNCHANGED <<pollVars, sessVars, flowVars>>

Call_set_input_level ==
    \E c \in Values, v \in OptCounts :
        /\ enc' = "set_input_level"
        /\ args' = <<c, v>>
        /\ ret' = set_input_level(c, v)
        /\ UNCHANGED <<pollVars, sessVars, flowVars>>

Call_set_additional_spectrum_emission_value ==
    \E c \in Values, v \in OptCounts :
        /\ enc' = "set_additional_spectrum_emission_value"
        /\ args' = <<c, v>>
        /\ ret' = set_additional_spectrum_emission_value(c, v)
        /\ UNCHANGED <<pollVars, sessVars, flowVars>>

Call_query_channel_power ==
    \E a \in ArgTuples :
        /\ enc' = "query_channel_power"
        /\ args' = a
        /\ ret' = query_channel_power(a)
        /\ UNCHANGED <<pollVars, sessVars, flowVars>>

Call_query_aclr ==
    \E a \in ArgTuples :
        /\ enc' = "query_aclr"
        /\ args' = a
        /\ ret' = query_aclr(a)
        /\ UNCHANGED <<pollVars, sessVars, flowVars>>

Call_query_inband_emission_general ==
    \E a \in ArgTuples :
        /\ enc' = "query_inband_emission_general"
        /\ args' = a
        /\ ret' = query_inband_emission_general(a)
        /\ UNCHANGED <<pollVars, sessVars, flowVars>>

Call_query_inband_emission_leakage ==
    \E a \in ArgTuples :
        /\ enc' = "query_inband_emission_leakage"
        /\ args' = a
        /\ ret' = query_inband_emission_leakage(a)
        /\ UNCHANGED <<pollVars, sessVars, flowVars>>

Call_query_inband_emission_margin ==
    \E a \in ArgTuples :
        /\ enc' = "query_inband_emission_margin"
        /\ args' = a
        /\ ret' = query_inband_emission_margin(a)
        /\ UNCHANGED <<pollVars, sessVars, flowVars>>

Call_query_inband_emission_margin_eutra ==
    \E a \in ArgTuples :
        /\ enc' = "query_inband_emission_margin_eutra"
        /\ args' = a
        /\ ret' = query_inband_emission_margin_eutra(a)
        /\ UNCHANGED <<pollVars, sessVars, flowVars>>

Call_query_power_temp ==
    \E a \in ArgTuples :
        /\ enc' = "query_power_temp"
        /\ args' = a
        /\ ret' = query_power_temp(a)
        /\ UNCHANGED <<pollVars, sessVars, flowVars>>

Call_set_loss_table_value ==
    \E a \in ArgTuples :
        /\ enc' = "set_loss_table_value"
        /\ args' = a
        /\ ret' = set_loss_table_value(a)
        /\ UNCHANGED <<pollVars, sessVars, flowVars>>

Call_set_ul_alloc_list ==
    \E a \in ArgTuples :
        /\ enc' = "set_ul_alloc_list"
        /\ args' = a
        /\ ret' = set_ul_alloc_list(a)
        /\ UNCHANGED <<pollVars, sessVars, flowVars>>

Call_query_sem_pass ==
    \E m \in Modes :
        /\ enc' = "query_sem_pass"
        /\ args' = <<m>>
        /\ ret' = query_sem_pass(m)
        /\ UNCHANGED <<pollVars, sessVars, flowVars>>

Call_query_ttl_worst_sem ==
    \E m \in Modes :
        /\ enc' = "query_ttl_worst_sem"
        /\ args' = <<m>>
        /\ ret' = query_ttl_worst_sem(m)
        /\ UNCHANGED <<pollVars, sessVars, flowVars>>

Call_query_ttl_worst_sem_level ==
    \E m \in Modes :
        /\ enc' = "query_ttl_worst_sem_level"
        /\ args' = <<m>>
        /\ ret' = query_ttl_worst_sem_level(m)
        /\ UNCHANGED <<pollVars, sessVars, flowVars>>

Call_query_pct_power_e1 ==
    \E m \in Modes :
        /\ enc' = "query_pct_power_e1"
        /\ args' = <<m>>
        /\ ret' = query_pct_power_e1(m)
        /\ UNCHANGED <<pollVars, sessVars, flowVars>>

Call_query_throughput_bler ==
    \E m \in Modes :
        /\ enc' = "query_throughput_bler"
        /\ args' = <<m>>
        /\ ret' = query_throughput_bler(m)
        /\ UNCHANGED <<pollVars, sessVars, flowVars>>

Call_query_throughput_bler_count ==
    \E m \in Modes :
        /\ enc' = "query_throughput_bler_count"
        /\ args' = <<m>>
        /\ ret' = query_throughput_bler_count(m)
        /\ UNCHANGED <<pollVars, sessVars, flowVars>>

Call_query_throughput_bler_count_nack ==
    \E m \in Modes :
        /\ enc' = "query_throughput_bler_count_nack"
        /\ args' = <<m>>
        /\ ret' = query_throughput_bler_count_nack(m)
        /\ UNCHANGED <<pollVars, sessVars, flowVars>>

Call_query_throughput_bler_count_dtx ==
    \E m \in Modes :
        /\ enc' = "query_throughput_bler_count_dtx"
        /\ args' = <<m>>
        /\ ret' = query_throughput_bler_count_dtx(m)
        /\ UNCHANGED <<pollVars, sessVars, flowVars>>

\* variant: opc() performs the barrier query itself
Call_opc_queries ==
    /\ enc' = "opc"
    /\ args' = <<>>
    /\ ret' = opc
    /\ wire' = Append(wire, [op |-> "query", cmd |-> opc])
    /\ UNCHANGED <<pc, timeout_s, poll_interval_s, start, now, query_s, replies, result, raised,
                   sessVars, flowVars>>

\* variant: set_remote_destination numbers its commands after the commands
\* the transport has seen
Call_set_remote_destination_numbered ==
    \E dest \in Dests :
        /\ enc' = "set_remote_destination"
        /\ args' = <<dest>>
        /\ ret' = set_remote_destination(dest) \o <<";">> \o NatStr(Len(wire))
        /\ UNCHANGED <<pollVars, sessVars, flowVars>>

Call_opc ==
    /\ enc' = "opc"
    /\ args' = <<>>
    /\ ret' = opc
    /\ UNCHANGED <<pollVars, sessVars, flowVars>>

Call_preset ==
    /\ enc' = "preset"
    /\ args' = <<>>
    /\ ret' = preset
    /\ UNCHANGED <<pollVars, sessVars, flowVars>>

Call_preset_sa ==
    /\ enc' = "preset_sa"
    /\ args' = <<>>
    /\ ret' = preset_sa
    /\ UNCHANGED <<pollVars, sessVars, flowVars>>

Call_set_ran_operation ==
    \E mode \in RanModes :
        /\ enc' = "set_ran_operation"
        /\ args' = <<mode>>
        /\ ret' = set_ran_operation(mode)
        /\ UNCHANGED <<pollVars, sessVars, flowVars>>

Call_set_remote_destination ==
    \E dest \in Dests :
        /\ enc' = "set_remote_destination"
        /\ args' = <<dest>>
        /\ ret' = set_remote_destination(dest)
        /\ UNCHANGED <<pollVars, sessVars, flowVars>>

Call_set_test_interface ==
    \E slot \in Values, interface \in Carriers :
        /\ enc' = "set_test_interface"
        /\ args' = <<slot, interface>>
        /\ ret' = set_test_interface(slot, interface)
        /\ UNCHANGED <<pollVars, sessVars, flowVars>>

Call_set_system_select ==
    \E system_num \in Bands :
        /\ enc' = "set_system_select"
        /\ args' = <<system_num>>
        /\ ret' = set_system_select(system_num)
        /\ UNCHANGED <<pollVars, sessVars, flowVars>>

Call_set_band ==
    \E cc \in Carriers, band \in Bands :
        /\ enc' = "set_band"
        /\ args' = <<cc, band>>
        /\ ret' = set_band(cc, band)
        /\ UNCHANGED <<pollVars, sessVars, flowVars>>

Call_set_dl_bandwidth ==
    \E cc \in Carriers, bw \in Bandwidths :
        /\ enc' = "set_dl_bandwidth"
        /\ args' = <<cc, bw>>
        /\ ret' = set_dl_bandwidth(cc, bw)
        /\ UNCHANGED <<pollVars, sessVars, flowVars>>

Call_set_early_decision ==
    \E mode \in Decisions :
        /\ enc' = "set_early_decision"
        /\ args' = <<mode>>
        /\ ret' = set_early_decision(mode)
        /\ UNCHANGED <<pollVars, sessVars, flowVars>>

Call_MT8821C_set_band ==
    \E band \in Bands :
        /\ enc' = "MT8821C_set_band"
        /\ args' = <<band>>
        /\ ret' = MT8821C_set_band(band)
        /\ UNCHANGED <<pollVars, sessVars, flowVars>>

Call_MT8821C_set_bandwidth ==
    \E bw \in Bandwidths :
        /\ enc' = "MT8821C_set_bandwidth"
        /\ args' = <<bw>>
        /\ ret' = MT8821C_set_bandwidth(bw)
        /\ UNCHANGED <<pollVars, sessVars, flowVars>>

Call_query_system_select ==
    \E system_num \in OptCounts :
        /\ enc' = "query_system_select"
        /\ args' = <<system_num>>
        /\ ret' = query_system_select(system_num)
        /\ UNCHANGED <<pollVars, sessVars, flowVars>>

Call_set_box2_slot ==
    \E slot \in Slots, trx \in Trxs, value \in OptCounts :
        /\ enc' = "set_box2_slot"
        /\ args' = <<slot, trx, value>>
        /\ ret' = set_box2_slot(slot, trx, value)
        /\ UNCHANGED <<pollVars, sessVars, flowVars>>

Next ==
    \/ Call_set_power_meas
    \/ Call_set_mod_meas
    \/ Call_set_sem_meas
    \/ Call_set_power_temp_meas
    \/ Call_set_call_processing
    \/ Call_set_obw_meas
    \/ Call_set_aclr_meas
    \/ Call_set_throughput_meas
    \/ Call_MT8821C_set_call_processing
    \/ Call_MT8821C_set_power_meas
    \/ Call_MT8821C_set_throughput_meas
    \/ Call_set_test_slot
    \/ Call_set_frame_type
    \/ Call_set_input_level
    \/ Call_set_additional_spectrum_emission_value
    \/ Call_query_channel_power
    \/ Call_query_aclr
    \/ Call_query_inband_emission_general
    \/ Call_query_inband_emission_leakage
    \/ Call_query_inband_emission_margin
    \/ Call_query_inband_emission_margin_eutra
    \/ Call_query_power_temp
    \/ Call_set_loss_table_value
    \/ Call_set_ul_alloc_list
    \/ Call_query_sem_pass
    \/ Call_query_ttl_worst_sem
    \/ Call_query_ttl_worst_sem_level
    \/ Call_query_pct_power_e1
    \/ Call_query_throughput_bler
    \/ Call_query_throughput_bler_count
    \/ Call_query_throughput_bler_count_nack
    \/ Call_query_throughput_bler_count_dtx
    \/ Call_opc
    \/ Call_preset
    \/ Call_preset_sa
    \/ Call_set_ran_operation
    \/ Call_set_remote_destination
    \/ Call_set_test_interface
    \/ Call_set_system_select
    \/ Call_set_band
    \/ Call_set_dl_bandwidth
    \/ Call_set_early_decision
    \/ Call_MT8821C_set_band
    \/ Call_MT8821C_set_bandwidth
    \/ Call_query_system_select
    \/ Call_set_box2_slot

Spec == Init /\ [][Next]_vars

(***************************************************************************)
(* wait_for_call_connected(timeout_s, poll_interval_s), step by step.      *)
(* The source carries the definition as a commented-out block of class     *)
(* MT8000A; the steps below follow that text line by line.                 *)
(* The status source is the transport: each query returns some raw reply   *)
(* or raises.                                                              *)
(***************************************************************************)
\* raw replies of the instrument to CALLSTAT?
RawReplies ==
    { <<"4">>, <<"6">>, <<"6", "\r", "\n">>, <<"C", "O", "N", "N", "E", "C", "T", "E", "D">>,
      <<" ", "C", "o", "n", "n", "e", "c", "t", "e", "d", " ">>, <<"N", "O", "T", "_", "C", "O", "N", "N", "E", "C", "T", "E", "D">>, <<>>,
      <<"I", "D", "L", "E">> }

InitPoller ==
    /\ NoCall
    /\ NoWait
    /\ NoTraffic
    /\ NoExample
    /\ now \in 0..MaxStart
    /\ query_s \in 0..MaxQueryTime

\* the call: start = time.time()
WaitStart ==
    /\ pc = "idle"
    /\ \E t \in 0..MaxTimeout, p \in 0..MaxInterval :
           /\ timeout_s' = t
           /\ poll_interval_s' = p
    /\ start' = now
    /\ pc' = "test"
    /\ UNCHANGED <<now, query_s, wire, replies, result, raised, encVars, sessVars, flowVars>>

\* the loop condition; when it fails, the warning and "return False"
LoopTest ==
    /\ pc = "test"
    /\ IF LoopCondition(now, start, timeout_s)
       THEN /\ pc' = "poll"
            /\ UNCHANGED <<result, raised>>
       ELSE /\ pc' = "done"
            /\ result' = TimeoutOutcome.result
            /\ raised' = TimeoutOutcome.raised
    /\ UNCHANGED <<timeout_s, poll_interval_s, start, now, query_s, wire, replies, encVars, sessVars, flowVars>>

\* variant: the query is sent and the loop goes on to sleep without
\* waiting for the reply
PollQueryNoWait ==
    /\ pc = "poll"
    /\ Len(wire) < MaxQueries
    /\ wire' = Append(wire, [op |-> "query", cmd |-> query_call_status])
    /\ pc' = "sleep"
    /\ UNCHANGED <<timeout_s, poll_interval_s, start, now, query_s, replies, result, raised,
                   encVars, sessVars, flowVars>>

\* status = self.query(self.query_call_status()): the query goes out on the
\* transport, and the call blocks until the transport answers
PollQuery ==
    /\ pc = "poll"
    /\ Len(wire) < MaxQueries
    /\ wire' = Append(wire, [op |-> "query", cmd |-> query_call_status])
    /\ pc' = "reply"
    /\ UNCHANGED <<timeout_s, poll_interval_s, start, now, query_s, replies, result, raised,
                   encVars, sessVars, flowVars>>

\* the transport answers; query strips the reply; then the test of the
\* status and "return True"
PollReply ==
    /\ pc = "reply"
    /\ now' = now + query_s
    /\ \E raw \in RawReplies :
           /\ replies' = Append(replies, raw)
           /\ answers' = Append(answers, [kind |-> "reply", raw |-> raw, exc |-> ""])
           /\ LET status == Strip(raw)
              IN  IF IsConnected(status)
                  THEN /\ pc' = "done"
                       /\ result' = "True"
                  ELSE /\ pc' = "sleep"
                       /\ UNCHANGED result
    /\ UNCHANGED <<timeout_s, poll_interval_s, start, query_s, wire, raised, encVars, flowVars,
                   caller, via, issued, outcomes>>

\* the transport raises instead: the exception leaves the call
PollRaises ==
    /\ pc = "reply"
    /\ now' = now + query_s
    /\ answers' = Append(answers, [kind |-> "raise", raw |-> <<>>, exc |-> "TransportError"])
    /\ raised' = "TransportError"
    /\ pc' = "done"
    /\ UNCHANGED <<timeout_s, poll_interval_s, start, query_s, wire, replies, result, encVars, flowVars,
                   caller, via, issued, outcomes>>

\* time.sleep(poll_interval_s)
Sleep ==
    /\ pc = "sleep"
    /\ now' = now + poll_interval_s
    /\ pc' = "test"
    /\ UNCHANGED <<timeout_s, poll_interval_s, start, query_s, wire, replies, result, raised,
                   encVars, sessVars, flowVars>>

NextPoller ==
    \/ WaitStart
    \/ LoopTest
    \/ PollQuery
    \/ PollReply
    \/ PollRaises
    \/ Sleep

SpecPoller == InitPoller /\ [][NextPoller]_vars

\* The same, with the interpreter executing every statement it reaches, the
\* transport answering or raising on every query, and time.sleep returning.
SpecPollerLive ==
    /\ SpecPoller
    /\ WF_vars(LoopTest)
    /\ WF_vars(PollQuery)
    /\ WF_vars(PollReply \/ PollRaises)
    /\ WF_vars(Sleep)

(***************************************************************************)
(* The Sessions.  MT8000A and MT8821C each hold the transport handed to    *)
(* the constructor in self._inst and nothing else; both wrap the same      *)
(* transport.  The caller builds a command with an encoder and passes the  *)
(* text to write or query of either class.  Each method hands the text to  *)
(* the transport and blocks until the transport returns or raises.         *)
(***************************************************************************)
\* raw replies of the transport to a query, with the terminators and
\* padding an instrument sends
SessionReplies == {<<" ", "1", " ", "0", "\r", "\n">>, <<"0">>}

\* exceptions the transport raises
TransportErrors == {"TransportError", "TimeoutError"}

\* resp = self._inst.query(cmd).strip(); return resp
MT8000A_query_resp(raw) == Strip(raw)

\* variant: the reply is handed back as received
MT8821C_query_resp_raw(raw) == raw

MT8821C_query_resp(raw) == Strip(raw)

\* variant: write goes through the transport's query and reads a reply
MT8000A_write_reads ==
    /\ caller = "ready"
    /\ enc # ""
    /\ Len(issued) < MaxOps
    /\ issued' = Append(issued, [via |-> "MT8000A", op |-> "write", enc |-> enc, args |-> args, cmd |-> ret])
    /\ wire' = Append(wire, [op |-> "query", cmd |-> ret])
    /\ caller' = "in_query"
    /\ via' = "MT8000A"
    /\ UNCHANGED <<encVars, flowVars, pc, timeout_s, poll_interval_s, start, now, query_s, replies, result, raised,
                   answers, outcomes>>

\* MT8000A.write(cmd): self._inst.write(cmd)
MT8000A_write ==
    /\ caller = "ready"
    /\ enc # ""
    /\ Len(issued) < MaxOps
    /\ issued' = Append(issued, [via |-> "MT8000A", op |-> "write", enc |-> enc, args |-> args, cmd |-> ret])
    /\ wire' = Append(wire, [op |-> "write", cmd |-> ret])
    /\ caller' = "in_write"
    /\ via' = "MT8000A"
    /\ UNCHANGED <<encVars, flowVars, pc, timeout_s, poll_interval_s, start, now, query_s, replies, result, raised,
                   answers, outcomes>>

\* variant: query selects its own instrument before it sends the command
MT8000A_query_routed ==
    /\ caller = "ready"
    /\ enc # ""
    /\ Len(issued) < MaxOps
    /\ issued' = Append(issued, [via |-> "MT8000A", op |-> "query", enc |-> enc, args |-> args, cmd |-> ret])
    /\ wire' = wire \o <<[op |-> "write", cmd |-> set_remote_destination(PyText(<<"8", "0", "0", "0", "A">>))],
                         [op |-> "query", cmd |-> ret]>>
    /\ caller' = "in_query"
    /\ via' = "MT8000A"
    /\ UNCHANGED <<encVars, flowVars, pc, timeout_s, poll_interval_s, start, now, query_s, replies, result, raised,
                   answers, outcomes>>

\* MT8000A.query(cmd): self._inst.query(cmd)
MT8000A_query ==
    /\ caller = "ready"
    /\ enc # ""
    /\ Len(issued) < MaxOps
    /\ issued' = Append(issued, [via |-> "MT8000A", op |-> "query", enc |-> enc, args |-> args, cmd |-> ret])
    /\ wire' = Append(wire, [op |-> "query", cmd |-> ret])
    /\ caller' = "in_query"
    /\ via' = "MT8000A"
    /\ UNCHANGED <<encVars, flowVars, pc, timeout_s, poll_interval_s, start, now, query_s, replies, result, raised,
                   answers, outcomes>>

\* variant: write follows every command with the barrier query
MT8821C_write_with_barrier ==
    /\ caller = "ready"
    /\ enc # ""
    /\ Len(issued) < MaxOps
    /\ issued' = Append(issued, [via |-> "MT8821C", op |-> "write", enc |-> enc, args |-> args, cmd |-> ret])
    /\ wire' = wire \o <<[op |-> "write", cmd |-> ret], [op |-> "query", cmd |-> opc]>>
    /\ caller' = "in_query"
    /\ via' = "MT8821C"
    /\ UNCHANGED <<encVars, flowVars, pc, timeout_s, poll_interval_s, start, now, query_s, replies, result, raised,
                   answers, outcomes>>

\* MT8821C.write(cmd): self._inst.write(cmd)
MT8821C_write ==
    /\ caller = "ready"
    /\ enc # ""
    /\ Len(issued) < MaxOps
    /\ issued' = Append(issued, [via |-> "MT8821C", op |-> "write", enc |-> enc, args |-> args, cmd |-> ret])
    /\ wire' = Append(wire, [op |-> "write", cmd |-> ret])
    /\ caller' = "in_write"
    /\ via' = "MT8821C"
    /\ UNCHANGED <<encVars, flowVars, pc, timeout_s, poll_interval_s, start, now, query_s, replies, result, raised,
                   answers, outcomes>>

\* MT8821C.query(cmd): self._inst.query(cmd)
MT8821C_query ==
    /\ caller = "ready"
    /\ enc # ""
    /\ Len(issued) < MaxOps
    /\ issued' = Append(issued, [via |-> "MT8821C", op |-> "query", enc |-> enc, args |-> args, cmd |-> ret])
    /\ wire' = Append(wire, [op |-> "query", cmd |-> ret])
    /\ caller' = "in_query"
    /\ via' = "MT8821C"
    /\ UNCHANGED <<encVars, flowVars, pc, timeout_s, poll_interval_s, start, now, query_s, replies, result, raised,
                   answers, outcomes>>

\* the transport's write returns: write falls off its end and returns None
WriteReturns ==
    /\ caller = "in_write"
    /\ answers' = Append(answers, [kind |-> "ok", raw |-> <<>>, exc |-> ""])
    /\ outcomes' = Append(outcomes, [kind |-> "return", value |-> None, exc |-> ""])
    /\ caller' = "ready"
    /\ via' = ""
    /\ UNCHANGED <<encVars, flowVars, pollVars, issued>>

\* the transport's write raises: nothing in write catches it
WriteRaises ==
    /\ caller = "in_write"
    /\ \E e \in TransportErrors :
           /\ answers' = Append(answers, [kind |-> "raise", raw |-> <<>>, exc |-> e])
           /\ outcomes' = Append(outcomes, [kind |-> "raise", value |-> None, exc |-> e])
    /\ caller' = "ready"
    /\ via' = ""
    /\ UNCHANGED <<encVars, flowVars, pollVars, issued>>

\* the transport's query returns a reply: query strips it and returns it
QueryReturns ==
    /\ caller = "in_query"
    /\ \E raw \in SessionReplies :
           /\ answers' = Append(answers, [kind |-> "reply", raw |-> raw, exc |-> ""])
           /\ replies' = Append(replies, raw)
           /\ outcomes' = Append(outcomes,
                  [kind |-> "return",
                   value |-> PyText(IF via = "MT8000A" THEN MT8000A_query_resp(raw)
                                                      ELSE MT8821C_query_resp(raw)),
                   exc |-> ""])
    /\ caller' = "ready"
    /\ via' = ""
    /\ UNCHANGED <<encVars, flowVars, pc, timeout_s, poll_interval_s, start, now, query_s, wire, result, raised,
                   issued>>

\* variant: query sends the command a second time when the first attempt raises
QueryRaisesRetried ==
    /\ caller = "in_query"
    /\ \E e \in TransportErrors :
           /\ answers' = Append(answers, [kind |-> "raise", raw |-> <<>>, exc |-> e])
           /\ IF Len(wire) = Len(issued)
              THEN /\ wire' = Append(wire, wire[Len(wire)])
                   /\ UNCHANGED <<outcomes, caller, via>>
              ELSE /\ outcomes' = Append(outcomes, [kind |-> "raise", value |-> None, exc |-> e])
                   /\ caller' = "ready"
                   /\ via' = ""
                   /\ UNCHANGED wire
    /\ UNCHANGED <<encVars, flowVars, pc, timeout_s, poll_interval_s, start, now, query_s, replies, result, raised,
                   issued>>

\* the transport's query raises: nothing in query catches it
QueryRaises ==
    /\ caller = "in_query"
    /\ \E e \in TransportErrors :
           /\ answers' = Append(answers, [kind |-> "raise", raw |-> <<>>, exc |-> e])
           /\ outcomes' = Append(outcomes, [kind |-> "raise", value |-> None, exc |-> e])
    /\ caller' = "ready"
    /\ via' = ""
    /\ UNCHANGED <<encVars, flowVars, pollVars, issued>>

\* the caller builds the next command: the encoders of the barrier and of
\* the routing command
CallerEncodes ==
    /\ caller = "ready"
    /\ \/ Call_opc
       \/ Call_set_remote_destination

NextSession ==
    \/ CallerEncodes
    \/ MT8000A_write
    \/ MT8000A_query
    \/ MT8821C_write
    \/ MT8821C_query
    \/ WriteReturns
    \/ WriteRaises
    \/ QueryReturns
    \/ QueryRaises

SpecSession == Init /\ [][NextSession]_vars

(***************************************************************************)
(* The example workflows.                                                  *)
(***************************************************************************)
\* The example workflows, statement by statement.  Each writes and queries
\* through visa_resource itself, not through the Session it constructs.
\* "wait_for_call_connected" stands for the call of the poller and the test
\* of its result that follows it; the float -88.1 is given as its text.
example_sa_power_measurement ==
    <<[kind |-> "MT8000A(visa_resource)", cmd |-> <<>>],
      [kind |-> "write", cmd |-> preset_sa],
      [kind |-> "write", cmd |-> set_ran_operation(PyText(<<"S", "A">>))],
      [kind |-> "write", cmd |-> set_test_interface(PyText(<<"S", "L", "O", "T", "1">>), PyText(<<"A", "R", "G", "V">>))],
      [kind |-> "write", cmd |-> set_test_slot(PyText(<<"S", "L", "O", "T", "1">>), None)],
      [kind |-> "write", cmd |-> set_call_processing(PyBool(TRUE))],
      [kind |-> "write", cmd |-> Encoded(<<"S", "I", "M", "M", "O", "D", "E", "L", "N", "U", "M">>, <<PyText(<<"P", "0", "1", "3", "5">>)>>)],
      [kind |-> "write", cmd |-> Encoded(<<"I", "N", "T", "E", "G", "R", "I", "T", "Y">>, <<PyText(<<"S", "N", "O", "W", "3", "G">>)>>)],
      [kind |-> "write", cmd |-> set_frame_type(PyText(<<"T", "D", "D">>), None)],
      [kind |-> "write", cmd |-> Encoded(<<"C", "H", "A", "N", "S", "E", "T", "M", "O", "D", "E">>, <<PyText(<<"L", "O", "W", "E", "S", "T", "G", "S", "C", "N">>)>>)],
      [kind |-> "write", cmd |-> set_band(PyText(<<"P", "C", "C">>), PyInt(78))],
      [kind |-> "write", cmd |-> Encoded(<<"D", "L", "S", "C", "S">>, <<PyText(<<"P", "C", "C">>), PyText(<<"3", "0", "K", "H", "Z">>)>>)],
      [kind |-> "write", cmd |-> set_dl_bandwidth(PyText(<<"P", "C", "C">>), PyText(<<"1", "0", "0", "M", "H", "Z">>))],
      [kind |-> "write", cmd |-> Encoded(<<"D", "L", "C", "H", "A", "N">>, <<PyText(<<"P", "C", "C">>), PyInt(623334)>>)],
      [kind |-> "write", cmd |-> Encoded(<<"O", "F", "F", "S", "E", "T", "C", "A", "R", "R", "I", "E", "R">>, <<PyText(<<"P", "C", "C">>), PyInt(0)>>)],
      [kind |-> "write", cmd |-> Encoded(<<"S", "S", "B", "C", "H", "A", "N">>, <<PyText(<<"P", "C", "C">>), PyInt(620352)>>)],
      [kind |-> "write", cmd |-> Encoded(<<"S", "S", "B", "S", "C", "S">>, <<PyText(<<"P", "C", "C">>), PyText(<<"3", "0", "K", "H", "Z">>)>>)],
      [kind |-> "write", cmd |-> Encoded(<<"D", "L", "U", "L", "P", "E", "R", "I", "O", "D">>, <<PyText(<<"P", "C", "C">>), PyText(<<"5", "M", "S">>)>>)],
      [kind |-> "write", cmd |-> Encoded(<<"D", "L", "D", "U", "R", "A", "T", "I", "O", "N">>, <<PyText(<<"P", "C", "C">>), PyInt(8)>>)],
      [kind |-> "write", cmd |-> Encoded(<<"U", "L", "D", "U", "R", "A", "T", "I", "O", "N">>, <<PyText(<<"P", "C", "C">>), PyInt(2)>>)],
      [kind |-> "write", cmd |-> Encoded(<<"D", "L", "S", "Y", "M", "B", "O", "L", "S">>, <<PyText(<<"P", "C", "C">>), PyInt(6)>>)],
      [kind |-> "write", cmd |-> Encoded(<<"U", "L", "S", "Y", "M", "B", "O", "L", "S">>, <<PyText(<<"P", "C", "C">>), PyInt(4)>>)],
      [kind |-> "write", cmd |-> Encoded(<<"D", "C", "I", "F", "O", "R", "M", "A", "T">>, <<PyText(<<"F", "O", "R", "M", "A", "T", "0", "_", "1", "_", "A", "N", "D", "_", "1", "_", "1">>)>>)],
      [kind |-> "write", cmd |-> Encoded(<<"S", "C", "H", "E", "D", "U", "L", "I", "N", "G">>, <<PyText(<<"S", "T", "A", "T", "I", "C">>)>>)],
      [kind |-> "write", cmd |-> Encoded(<<"G", "R", "O", "U", "P", "H", "O", "P", "P", "I", "N", "G", "_", "C", "C", "H">>, <<PyText(<<"E", "N", "A", "B", "L", "E">>)>>)],
      [kind |-> "write", cmd |-> call_sa],
      [kind |-> "wait_for_call_connected", cmd |-> <<>>],
      [kind |-> "write", cmd |-> all_meas_items_off],
      [kind |-> "write", cmd |-> set_power_meas(PyBool(TRUE), PyInt(1))],
      [kind |-> "write", cmd |-> Encoded(<<"U", "L", "W", "A", "V", "E", "F", "O", "R", "M">>, <<PyText(<<"P", "C", "C">>), PyText(<<"D", "F", "T", "O", "F", "D", "M">>)>>)],
      [kind |-> "write", cmd |-> Encoded(<<"U", "L", "R", "M", "C", "_", "R", "B">>, <<PyText(<<"P", "C", "C">>), PyInt(162)>>)],
      [kind |-> "write", cmd |-> Encoded(<<"U", "L", "R", "B", "_", "S", "T", "A", "R", "T">>, <<PyText(<<"P", "C", "C">>), PyInt(0)>>)],
      [kind |-> "write", cmd |-> Encoded(<<"U", "L", "I", "M", "C", "S">>, <<PyText(<<"P", "C", "C">>), PyInt(10)>>)],
      [kind |-> "write", cmd |-> Encoded(<<"D", "L", "R", "M", "C", "_", "R", "B">>, <<PyText(<<"P", "C", "C">>), PyInt(0)>>)],
      [kind |-> "write", cmd |-> Encoded(<<"D", "L", "R", "B", "_", "S", "T", "A", "R", "T">>, <<PyText(<<"P", "C", "C">>), PyInt(0)>>)],
      [kind |-> "write", cmd |-> Encoded(<<"D", "L", "M", "C", "S", "_", "T", "A", "B", "L", "E">>, <<PyText(<<"P", "C", "C">>), PyText(<<"6", "4", "Q", "A", "M">>)>>)],
      [kind |-> "write", cmd |-> Encoded(<<"D", "L", "I", "M", "C", "S">>, <<PyText(<<"P", "C", "C">>), PyInt(4)>>)],
      [kind |-> "write", cmd |-> set_input_level(PyText(<<"P", "C", "C">>), PyInt(23))],
      [kind |-> "write", cmd |-> Encoded(<<"T", "P", "C", "P", "A", "T">>, <<PyText(<<"A", "L", "L", "3">>)>>)],
      [kind |-> "write", cmd |-> sweep],
      [kind |-> "query", cmd |-> query_meas_status],
      [kind |-> "query", cmd |-> query_power],
      [kind |-> "write", cmd |-> Encoded(<<"T", "P", "C", "P", "A", "T">>, <<PyText(<<"A", "U", "T", "O">>)>>)],
      [kind |-> "return", cmd |-> <<>>]>>

example_nsa_endc_evm_measurement ==
    <<[kind |-> "MT8000A(visa_resource)", cmd |-> <<>>],
      [kind |-> "MT8821C()", cmd |-> <<>>],
      [kind |-> "write", cmd |-> set_remote_destination(PyText(<<"8", "8", "2", "1", "C">>))],
      [kind |-> "write", cmd |-> MT8821C_preset],
      [kind |-> "write", cmd |-> MT8821C_set_call_processing(PyBool(TRUE))],
      [kind |-> "write", cmd |-> MT8821C_set_band(PyInt(41))],
      [kind |-> "write", cmd |-> MT8821C_set_bandwidth(PyText(<<"2", "0", "M", "H", "Z">>))],
      [kind |-> "write", cmd |-> Encoded(<<"S", "I", "M", "M", "O", "D", "E", "L", "N", "U", "M">>, <<PyText(<<"P", "0", "2", "5", "0">>)>>)],
      [kind |-> "write", cmd |-> Encoded(<<"I", "N", "T", "E", "G", "R", "I", "T", "Y">>, <<PyText(<<"S", "N", "O", "W", "3", "G">>)>>)],
      [kind |-> "write", cmd |-> set_remote_destination(PyText(<<"8", "0", "0", "0", "A">>))],
      [kind |-> "write", cmd |-> set_frame_type(PyText(<<"T", "D", "D">>), None)],
      [kind |-> "write", cmd |-> set_band(PyText(<<"P", "C", "C">>), PyInt(41))],
      [kind |-> "write", cmd |-> Encoded(<<"D", "L", "S", "C", "S">>, <<PyText(<<"P", "C", "C">>), PyText(<<"3", "0", "K", "H", "Z">>)>>)],
      [kind |-> "write", cmd |-> set_dl_bandwidth(PyText(<<"P", "C", "C">>), PyText(<<"1", "0", "0", "M", "H", "Z">>))],
      [kind |-> "write", cmd |-> Encoded(<<"D", "L", "C", "H", "A", "N">>, <<PyText(<<"P", "C", "C">>), PyInt(509202)>>)],
      [kind |-> "write", cmd |-> Encoded(<<"O", "F", "F", "S", "E", "T", "C", "A", "R", "R", "I", "E", "R">>, <<PyText(<<"P", "C", "C">>), PyInt(0)>>)],
      [kind |-> "write", cmd |-> Encoded(<<"C", "H", "A", "N", "S", "E", "T", "M", "O", "D", "E">>, <<PyText(<<"L", "O", "W", "E", "S", "T", "G", "S", "C", "N">>)>>)],
      [kind |-> "write", cmd |-> Encoded(<<"S", "S", "B", "C", "H", "A", "N">>, <<PyText(<<"P", "C", "C">>), PyInt(500190)>>)],
      [kind |-> "write", cmd |-> Encoded(<<"S", "S", "B", "S", "C", "S">>, <<PyText(<<"P", "C", "C">>), PyText(<<"3", "0", "K", "H", "Z">>)>>)],
      [kind |-> "write", cmd |-> Encoded(<<"D", "L", "U", "L", "P", "E", "R", "I", "O", "D">>, <<PyText(<<"P", "C", "C">>), PyText(<<"5", "M", "S">>)>>)],
      [kind |-> "write", cmd |-> Encoded(<<"D", "L", "D", "U", "R", "A", "T", "I", "O", "N">>, <<PyText(<<"P", "C", "C">>), PyInt(8)>>)],
      [kind |-> "write", cmd |-> Encoded(<<"U", "L", "D", "U", "R", "A", "T", "I", "O", "N">>, <<PyText(<<"P", "C", "C">>), PyInt(2)>>)],
      [kind |-> "write", cmd |-> Encoded(<<"D", "L", "S", "Y", "M", "B", "O", "L", "S">>, <<PyText(<<"P", "C", "C">>), PyInt(6)>>)],
      [kind |-> "write", cmd |-> Encoded(<<"U", "L", "S", "Y", "M", "B", "O", "L", "S">>, <<PyText(<<"P", "C", "C">>), PyInt(4)>>)],
      [kind |-> "write", cmd |-> Encoded(<<"E", "N", "D", "C", "M", "E", "A", "S", "M", "O", "D", "E">>, <<PyText(<<"N", "R">>)>>)],
      [kind |-> "write", cmd |-> set_remote_destination(PyText(<<"8", "8", "2", "1", "C">>))],
      [kind |-> "write", cmd |-> MT8821C_call_sa],
      [kind |-> "write", cmd |-> set_remote_destination(PyText(<<"8", "0", "0", "0", "A">>))],
      [kind |-> "write", cmd |-> call_sa],
      [kind |-> "wait_for_call_connected", cmd |-> <<>>],
      [kind |-> "write", cmd |-> all_meas_items_off],
      [kind |-> "write", cmd |-> set_mod_meas(PyBool(TRUE), PyInt(20))],
      [kind |-> "write", cmd |-> Encoded(<<"U", "L", "W", "A", "V", "E", "F", "O", "R", "M">>, <<PyText(<<"P", "C", "C">>), PyText(<<"D", "F", "T", "O", "F", "D", "M">>)>>)],
      [kind |-> "write", cmd |-> Encoded(<<"U", "L", "R", "M", "C", "_", "R", "B">>, <<PyText(<<"P", "C", "C">>), PyInt(162)>>)],
      [kind |-> "write", cmd |-> Encoded(<<"U", "L", "R", "B", "_", "S", "T", "A", "R", "T">>, <<PyText(<<"P", "C", "C">>), PyInt(0)>>)],
      [kind |-> "write", cmd |-> Encoded(<<"U", "L", "I", "M", "C", "S">>, <<PyText(<<"P", "C", "C">>), PyInt(2)>>)],
      [kind |-> "write", cmd |-> set_input_level(PyText(<<"P", "C", "C">>), PyInt(23))],
      [kind |-> "write", cmd |-> Encoded(<<"T", "P", "C", "P", "A", "T">>, <<PyText(<<"A", "L", "L", "3">>)>>)],
      [kind |-> "write", cmd |-> sweep],
      [kind |-> "query", cmd |-> query_meas_status],
      [kind |-> "query", cmd |-> query_evm],
      [kind |-> "query", cmd |-> query_carrier_leakage],
      [kind |-> "write", cmd |-> Encoded(<<"T", "P", "C", "P", "A", "T">>, <<PyText(<<"A", "U", "T", "O">>)>>)],
      [kind |-> "return", cmd |-> <<>>]>>

example_rx_throughput_measurement ==
    <<[kind |-> "MT8000A(visa_resource)", cmd |-> <<>>],
      [kind |-> "write", cmd |-> all_meas_items_off],
      [kind |-> "write", cmd |-> set_throughput_meas(PyBool(TRUE))],
      [kind |-> "write", cmd |-> Encoded(<<"T", "P", "U", "T", "_", "S", "A", "M", "P", "L", "E">>, <<PyInt(2466)>>)],
      [kind |-> "write", cmd |-> set_early_decision(PyBool(TRUE))],
      [kind |-> "write", cmd |-> Encoded(<<"D", "L", "R", "M", "C", "_", "R", "B">>, <<PyText(<<"P", "C", "C">>), PyInt(133)>>)],
      [kind |-> "write", cmd |-> Encoded(<<"D", "L", "M", "C", "S", "_", "T", "A", "B", "L", "E">>, <<PyText(<<"P", "C", "C">>), PyText(<<"6", "4", "Q", "A", "M">>)>>)],
      [kind |-> "write", cmd |-> Encoded(<<"D", "L", "I", "M", "C", "S">>, <<PyText(<<"P", "C", "C">>), PyInt(4)>>)],
      [kind |-> "write", cmd |-> Encoded(<<"A", "V", "O", "I", "D", "C", "S", "I", "R", "S", "F", "O", "R", "R", "E", "F", "S", "E", "N", "S">>, <<PyText(<<"P", "C", "C">>), PyText(<<"O", "N">>)>>)],
      [kind |-> "write", cmd |-> Encoded(<<"O", "L", "V", "L">>, <<PyText(<<"P", "C", "C">>), PyText(<<"-", "8", "8", ".", "1">>)>>)],
      [kind |-> "write", cmd |-> set_input_level(PyText(<<"P", "C", "C">>), PyInt(23))],
      [kind |-> "write", cmd |-> Encoded(<<"T", "P", "C", "P", "A", "T">>, <<PyText(<<"A", "L", "L", "3">>)>>)],
      [kind |-> "write", cmd |-> sweep],
      [kind |-> "query", cmd |-> query_meas_status],
      [kind |-> "query", cmd |-> query_throughput(PyText(<<"P", "E", "R">>), PyText(<<>>))],
      [kind |-> "write", cmd |-> Encoded(<<"T", "P", "C", "P", "A", "T">>, <<PyText(<<"A", "U", "T", "O">>)>>)],
      [kind |-> "write", cmd |-> set_early_decision(PyText(<<"O", "F", "F">>))],
      [kind |-> "write", cmd |-> Encoded(<<"A", "V", "O", "I", "D", "C", "S", "I", "R", "S", "F", "O", "R", "R", "E", "F", "S", "E", "N", "S">>, <<PyText(<<"P", "C", "C">>), PyText(<<"O", "F", "F">>)>>)],
      [kind |-> "return", cmd |-> <<>>]>>

Examples == {"example_sa_power_measurement", "example_nsa_endc_evm_measurement",
             "example_rx_throughput_measurement"}

Script(f) ==
    CASE f = "example_sa_power_measurement" -> example_sa_power_measurement
      [] f = "example_nsa_endc_evm_measurement" -> example_nsa_endc_evm_measurement
      [] f = "example_rx_throughput_measurement" -> example_rx_throughput_measurement

\* the example stands at a statement of kind k
At(k) ==
    /\ flow \in Examples
    /\ step \in 1..Len(Script(flow))
    /\ Script(flow)[step].kind = k

\* an example is called with an opened transport
CallExample ==
    /\ flow = "none"
    /\ \E f \in Examples : flow' = f
    /\ step' = 1
    /\ UNCHANGED <<encVars, pollVars, sessVars>>

\* mt = MT8000A(visa_resource)
Construct_MT8000A ==
    /\ At("MT8000A(visa_resource)")
    /\ step' = step + 1
    /\ UNCHANGED <<encVars, pollVars, sessVars, flow>>

\* mt8821c = MT8821C(): __init__ requires visa_resource, the call raises
Construct_MT8821C ==
    /\ At("MT8821C()")
    /\ raised' = "TypeError"
    /\ step' = 0
    /\ UNCHANGED <<encVars, pc, timeout_s, poll_interval_s, start, now, query_s, wire, replies, result,
                   sessVars, flow>>

\* visa_resource.write(text), the transport accepting it
ExampleWrites ==
    /\ At("write")
    /\ wire' = Append(wire, [op |-> "write", cmd |-> Script(flow)[step].cmd])
    /\ answers' = Append(answers, [kind |-> "ok", raw |-> <<>>, exc |-> ""])
    /\ step' = step + 1
    /\ UNCHANGED <<encVars, pc, timeout_s, poll_interval_s, start, now, query_s, replies, result, raised,
                   caller, via, issued, outcomes, flow>>

\* visa_resource.write(text), the transport raising: the exception leaves
\* the example
ExampleWriteRaises ==
    /\ At("write")
    /\ wire' = Append(wire, [op |-> "write", cmd |-> Script(flow)[step].cmd])
    /\ \E e \in TransportErrors :
           /\ answers' = Append(answers, [kind |-> "raise", raw |-> <<>>, exc |-> e])
           /\ raised' = e
    /\ step' = 0
    /\ UNCHANGED <<encVars, pc, timeout_s, poll_interval_s, start, now, query_s, replies, result,
                   caller, via, issued, outcomes, flow>>

\* x = visa_resource.query(text), the transport replying
ExampleQueries ==
    /\ At("query")
    /\ wire' = Append(wire, [op |-> "query", cmd |-> Script(flow)[step].cmd])
    /\ \E raw \in SessionReplies :
           /\ answers' = Append(answers, [kind |-> "reply", raw |-> raw, exc |-> ""])
           /\ replies' = Append(replies, raw)
    /\ step' = step + 1
    /\ UNCHANGED <<encVars, pc, timeout_s, poll_interval_s, start, now, query_s, result, raised,
                   caller, via, issued, outcomes, flow>>

\* x = visa_resource.query(text), the transport raising
ExampleQueryRaises ==
    /\ At("query")
    /\ wire' = Append(wire, [op |-> "query", cmd |-> Script(flow)[step].cmd])
    /\ \E e \in TransportErrors :
           /\ answers' = Append(answers, [kind |-> "raise", raw |-> <<>>, exc |-> e])
           /\ raised' = e
    /\ step' = 0
    /\ UNCHANGED <<encVars, pc, timeout_s, poll_interval_s, start, now, query_s, replies, result,
                   caller, via, issued, outcomes, flow>>

\* connected = mt.wait_for_call_connected(timeout_s=60): class MT8000A
\* defines no such attribute (its definition is commented out), the
\* attribute lookup raises
ExampleWaits ==
    /\ At("wait_for_call_connected")
    /\ raised' = "AttributeError"
    /\ step' = 0
    /\ UNCHANGED <<encVars, pc, timeout_s, poll_interval_s, start, now, query_s, wire, replies, result,
                   sessVars, flow>>

\* return {...}
ExampleReturns ==
    /\ At("return")
    /\ result' = "returned"
    /\ step' = 0
    /\ UNCHANGED <<encVars, pc, timeout_s, poll_interval_s, start, now, query_s, wire, replies, raised,
                   sessVars, flow>>

NextWorkflow ==
    \/ CallExample
    \/ Construct_MT8000A
    \/ Construct_MT8821C
    \/ ExampleWrites
    \/ ExampleWriteRaises
    \/ ExampleQueries
    \/ ExampleQueryRaises
    \/ ExampleWaits
    \/ ExampleReturns

SpecWorkflow == Init /\ [][NextWorkflow]_vars

(***************************************************************************)
(* Vocabulary of the properties: the instrument's operation token of each  *)
(* encoder, and ways of reading a command text.                            *)
(***************************************************************************)
\* the operation token each encoder stands for (queries end in "?")
OperationToken(e) ==
    CASE e = "set_power_meas" -> <<"P", "W", "R", "_", "M", "E", "A", "S">>
      [] e = "set_mod_meas" -> <<"M", "O", "D", "_", "M", "E", "A", "S">>
      [] e = "set_sem_meas" -> <<"S", "E", "M", "_", "M", "E", "A", "S">>
      [] e = "set_power_temp_meas" -> <<"P", "W", "R", "T", "E", "M", "P", "_", "M", "E", "A", "S">>
      [] e = "set_call_processing" -> <<"C", "A", "L", "L", "P", "R", "O", "C">>
      [] e = "set_obw_meas" -> <<"O", "B", "W", "M", "E", "A", "S">>
      [] e = "set_aclr_meas" -> <<"A", "C", "L", "R", "_", "M", "E", "A", "S">>
      [] e = "set_throughput_meas" -> <<"T", "P", "U", "T", "_", "M", "E", "A", "S">>
      [] e = "MT8821C_set_call_processing" -> <<"C", "A", "L", "L", "P", "R", "O", "C">>
      [] e = "MT8821C_set_power_meas" -> <<"P", "W", "R", "_", "M", "E", "A", "S">>
      [] e = "MT8821C_set_throughput_meas" -> <<"T", "P", "U", "T", "_", "M", "E", "A", "S">>
      [] e = "set_test_slot" -> <<"T", "E", "S", "T", "S", "L", "O", "T">>
      [] e = "set_frame_type" -> <<"F", "R", "A", "M", "E", "T", "Y", "P", "E">>
      [] e = "set_input_level" -> <<"I", "L", "V", "L">>
      [] e = "set_additional_spectrum_emission_value" -> <<"A", "D", "D", "S", "P", "E", "M", "V", "A", "L", "U", "E">>
      [] e = "query_channel_power" -> <<"C", "H", "P", "W", "R", "?">>
      [] e = "query_aclr" -> <<"A", "C", "L", "R", "?">>
      [] e = "query_inband_emission_general" -> <<"I", "N", "B", "A", "N", "D", "E", "_", "G", "E", "N", "?">>
      [] e = "query_inband_emission_leakage" -> <<"I", "N", "B", "A", "N", "D", "E", "_", "L", "E", "A", "K", "?">>
      [] e = "query_inband_emission_margin" -> <<"I", "N", "B", "A", "N", "D", "E", "_", "M", "A", "R", "G", "?">>
      [] e = "query_inband_emission_margin_eutra" -> <<"I", "N", "B", "A", "N", "D", "E", "_", "M", "A", "R", "G", "_", "E", "U", "T", "R", "A", "?">>
      [] e = "query_power_temp" -> <<"P", "W", "R", "T", "E", "M", "P", "?">>
      [] e = "set_loss_table_value" -> <<"L", "O", "S", "S", "T", "B", "L", "V", "A", "L">>
      [] e = "set_ul_alloc_list" -> <<"U", "L", "A", "L", "L", "O", "C", "L", "I", "S", "T">>
      [] e = "query_sem_pass" -> <<"S", "E", "M", "P", "A", "S", "S", "?">>
      [] e = "query_ttl_worst_sem" -> <<"T", "T", "L", "_", "W", "O", "R", "S", "T", "_", "S", "E", "M", "?">>
      [] e = "query_ttl_worst_sem_level" -> <<"T", "T", "L", "_", "W", "O", "R", "S", "T", "_", "S", "E", "M", "_", "L", "V", "?">>
      [] e = "query_pct_power_e1" -> <<"P", "C", "T", "P", "W", "R", "E", "1", "?">>
      [] e = "query_throughput_bler" -> <<"T", "P", "U", "T", "_", "B", "L", "E", "R", "?">>
      [] e = "query_throughput_bler_count" -> <<"T", "P", "U", "T", "_", "B", "L", "E", "R", "C", "N", "T", "?">>
      [] e = "query_throughput_bler_count_nack" -> <<"T", "P", "U", "T", "_", "B", "L", "E", "R", "C", "N", "T", "N", "A", "C", "K", "?">>
      [] e = "query_throughput_bler_count_dtx" -> <<"T", "P", "U", "T", "_", "B", "L", "E", "R", "C", "N", "T", "D", "T", "X", "?">>
      [] e = "set_ran_operation" -> <<"R", "A", "N", "O", "P">>
      [] e = "set_remote_destination" -> <<"R", "E", "M", "_", "D", "E", "S", "T">>
      [] e = "set_test_interface" -> <<"T", "E", "S", "T", "I", "F">>
      [] e = "set_system_select" -> <<"S", "Y", "S", "S", "E", "L">>
      [] e = "set_band" -> <<"B", "A", "N", "D">>
      [] e = "set_dl_bandwidth" -> <<"D", "L", "B", "A", "N", "D", "W", "I", "D", "T", "H">>
      [] e = "set_early_decision" -> <<"E", "A", "R", "L", "Y", "_", "D", "E", "C", "I", "S", "I", "O", "N">>
      [] e = "MT8821C_set_band" -> <<"B", "A", "N", "D">>
      [] e = "MT8821C_set_bandwidth" -> <<"B", "A", "N", "D", "W", "I", "D", "T", "H">>

\* the averaging-count operation of each measurement-enable encoder
AveragingToken(e) ==
    CASE e = "set_power_meas" -> <<"P", "W", "R", "_", "A", "V", "G">>
      [] e = "set_mod_meas" -> <<"M", "O", "D", "_", "A", "V", "G">>
      [] e = "set_sem_meas" -> <<"S", "E", "M", "_", "A", "V", "G">>
      [] e = "set_power_temp_meas" -> <<"P", "W", "R", "T", "E", "M", "P", "_", "A", "V", "G">>

AvgEncoders == {"set_power_meas", "set_mod_meas", "set_sem_meas", "set_power_temp_meas"}
BoolEncoders == AvgEncoders \cup
    {"set_call_processing", "set_obw_meas", "set_aclr_meas", "set_throughput_meas", "MT8821C_set_call_processing", "MT8821C_set_power_meas", "MT8821C_set_throughput_meas"}
QualifierEncoders == {"set_test_slot", "set_frame_type"}
ValueFirstEncoders == {"set_input_level", "set_additional_spectrum_emission_value"}
VariadicQueries == {"query_channel_power", "query_aclr", "query_inband_emission_general", "query_inband_emission_leakage", "query_inband_emission_margin", "query_inband_emission_margin_eutra", "query_power_temp"}
VariadicSetters == {"set_loss_table_value", "set_ul_alloc_list"}
ModeQueries == {"query_sem_pass", "query_ttl_worst_sem", "query_ttl_worst_sem_level", "query_pct_power_e1", "query_throughput_bler", "query_throughput_bler_count", "query_throughput_bler_count_nack", "query_throughput_bler_count_dtx"}

\* the text cut at every character of seps (empty fields kept)
RECURSIVE Fields(_, _)
Fields(text, seps) ==
    IF \A i \in 1..Len(text) : text[i] \notin seps THEN <<text>>
    ELSE LET k == CHOOSE i \in 1..Len(text) :
                      /\ text[i] \in seps
                      /\ \A j \in 1..(i - 1) : text[j] \notin seps
         IN  <<SubSeq(text, 1, k - 1)>> \o Fields(SubSeq(text, k + 1, Len(text)), seps)

\* how often character ch occurs in text
CountChar(text, ch) == Cardinality({i \in 1..Len(text) : text[i] = ch})

\* the command lines a returned text is on the wire: one per line of text
CommandLines(text) == Fields(text, {"\n"})

\* the tokens of one command: cut at space, comma and semicolon
Tokens(text) == Fields(text, {" ", ",", ";"})

\* the literal token for a flag
FlagLiteral(on) == IF on.b THEN <<"O", "N">> ELSE <<"O", "F", "F">>

\* a1,a2,...,ak built from the last argument backwards
RECURSIVE ArgumentList(_)
ArgumentList(a) ==
    IF Len(a) = 0 THEN <<>>
    ELSE IF Len(a) = 1 THEN Format(a[1])
    ELSE ArgumentList(SubSeq(a, 1, Len(a) - 1)) \o <<",">> \o Format(a[Len(a)])

(***************************************************************************)
(* C1.  A measurement-enable encoder called with an averaging count        *)
(* yields two separate commands, "<X>_MEAS ON|OFF" and then                *)
(* "<X>_AVG <avg>"; called without one it yields the single enable         *)
(* command.                                                                *)
(***************************************************************************)
C1_TwoCommands ==
    enc \in AvgEncoders =>
        LET enable == OperationToken(enc) \o <<" ">> \o FlagLiteral(args[1])
            count == AveragingToken(enc) \o <<" ">> \o Format(args[2])
        IN  CommandLines(ret) = IF args[2] = None THEN <<enable>> ELSE <<enable, count>>

\* set_power_meas(True, 1) returns the single text "PWR_MEAS ONPWR_AVG 1"
C1_Fused ==
    /\ enc = "set_power_meas"
    /\ args = <<PyBool(TRUE), PyInt(1)>>
    /\ ret = <<"P", "W", "R", "_", "M", "E", "A", "S", " ", "O", "N", "P", "W", "R", "_", "A", "V", "G", " ", "1">>

(***************************************************************************)
(* Vocabulary of the poller's properties.                                  *)
(***************************************************************************)
\* the text between the first and the last character that is not blank
Trimmed(raw) ==
    LET solid == {i \in 1..Len(raw) : raw[i] \notin {" ", "\t", "\n", "\r"}}
    IN  IF solid = {} THEN <<>>
        ELSE SubSeq(raw, CHOOSE i \in solid : \A j \in solid : i <= j,
                         CHOOSE i \in solid : \A j \in solid : i >= j)

\* c is letter number k of the alphabet, in either case
IsLetter(c, k) == c = LowerLetters[k] \/ c = UpperLetters[k]

\* the letters C O N N E C T E D as numbers of the alphabet
ConnectedWord == <<3, 15, 14, 14, 5, 3, 20, 5, 4>>

\* a raw reply denotes an established connection: once trimmed it holds
\* the word CONNECTED in any letter case, or it is the status code 6
DenotesConnected(raw) ==
    LET text == Trimmed(raw)
    IN  \/ text = <<"6">>
        \/ \E i \in 0..(Len(text) - 9) : \A k \in 1..9 : IsLetter(text[i + k], ConnectedWord[k])

\* the time elapsed since the wait started
Elapsed == now - start

C6_FlagToken ==
    enc \in BoolEncoders =>
        /\ Len(Tokens(ret)) >= 2
        /\ Tokens(ret)[1] = OperationToken(enc)
        /\ Tokens(ret)[2] = FlagLiteral(args[1])

\* set_mod_meas(False, 0): the flag's token on the wire is "OFFMOD_AVG"
C6_FusedFlag ==
    /\ enc = "set_mod_meas"
    /\ args = <<PyBool(FALSE), PyInt(0)>>
    /\ Tokens(ret)[2] = <<"O", "F", "F", "M", "O", "D", "_", "A", "V", "G">>

(***************************************************************************)
(* C7 (as stated).  An encoder with an optional qualifier before a value   *)
(* returns "OPERATION value" when the qualifier was omitted and            *)
(* "OPERATION qualifier,value" when the caller supplied one: the qualifier *)
(* appears if and only if it was supplied.                                 *)
(***************************************************************************)
C7_QualifierIffSupplied ==
    /\ enc \in QualifierEncoders =>
           ret = IF args[2] = None
                 THEN OperationToken(enc) \o <<" ">> \o Format(args[1])
                 ELSE OperationToken(enc) \o <<" ">> \o Format(args[2]) \o <<",">> \o Format(args[1])
    /\ enc \in ValueFirstEncoders =>
           ret = IF args[2] = None
                 THEN OperationToken(enc) \o <<" ">> \o Format(args[1])
                 ELSE OperationToken(enc) \o <<" ">> \o Format(args[1]) \o <<",">> \o Format(args[2])

(***************************************************************************)
(* C7 (amended).  set_test_slot and set_frame_type return                  *)
(* "OPERATION qualifier,value" if and only if the qualifier was supplied   *)
(* and is not the empty string, and "OPERATION value" otherwise;           *)
(* set_input_level and set_additional_spectrum_emission_value return       *)
(* "OPERATION qualifier,value" if and only if the second argument was      *)
(* supplied.  Either form has one space, after the operation name, and the *)
(* qualified form alone has a comma.                                       *)
(***************************************************************************)
C7_QualifierIffNonEmpty ==
    /\ enc \in QualifierEncoders =>
           LET present == args[2] # None /\ args[2] # PyText(<<>>)
           IN  /\ ret = IF present
                        THEN OperationToken(enc) \o <<" ">> \o Format(args[2]) \o <<",">> \o Format(args[1])
                        ELSE OperationToken(enc) \o <<" ">> \o Format(args[1])
               /\ CountChar(ret, " ") = 1
               /\ CountChar(ret, ",") = IF present THEN 1 ELSE 0
    /\ enc \in ValueFirstEncoders =>
           LET present == args[2] # None
           IN  /\ ret = IF present
                        THEN OperationToken(enc) \o <<" ">> \o Format(args[1]) \o <<",">> \o Format(args[2])
                        ELSE OperationToken(enc) \o <<" ">> \o Format(args[1])
               /\ CountChar(ret, " ") = 1
               /\ CountChar(ret, ",") = IF present THEN 1 ELSE 0

\* set_frame_type("TDD", "") was called and returned the unqualified form
C7_EmptyQualifier ==
    /\ enc = "set_frame_type"
    /\ args = <<PyText(<<"T", "D", "D">>), PyText(<<>>)>>
    /\ ret = <<"F", "R", "A", "M", "E", "T", "Y", "P", "E", " ", "T", "D", "D">>

(***************************************************************************)
(* C8.  A variadic query encoder returns exactly "OPERATION?" for no       *)
(* arguments, with no trailing space, and "OPERATION? a1,...,ak" for       *)
(* k >= 1 arguments: one space before the first argument and commas        *)
(* without spaces between the arguments.                                   *)
(***************************************************************************)
C8_VariadicQuery ==
    enc \in VariadicQueries =>
        /\ ret = IF Len(args) = 0
                 THEN OperationToken(enc)
                 ELSE OperationToken(enc) \o <<" ">> \o ArgumentList(args)
        /\ Len(args) = 0 => ret[Len(ret)] = "?"
        /\ CountChar(ret, " ") = IF Len(args) = 0 THEN 0 ELSE 1
        /\ CountChar(ret, ",") = IF Len(args) = 0 THEN 0 ELSE Len(args) - 1

\* query_aclr(1, "SCC1") was called and returned "ACLR? 1,SCC1"
C8_AclrTwoArgs ==
    /\ enc = "query_aclr"
    /\ args = <<PyInt(1), PyText(<<"S", "C", "C", "1">>)>>
    /\ ret = <<"A", "C", "L", "R", "?", " ", "1", ",", "S", "C", "C", "1">>

(***************************************************************************)
(* C9.  A variadic setter joins its arguments with commas after the        *)
(* operation name and one space, and for no arguments returns exactly the  *)
(* operation name, with no trailing space.                                 *)
(***************************************************************************)
C9_VariadicSetter ==
    enc \in VariadicSetters =>
        ret = IF Len(args) = 0
              THEN OperationToken(enc)
              ELSE OperationToken(enc) \o <<" ">> \o ArgumentList(args)

\* set_loss_table_value() was called and returned "LOSSTBLVAL " (trailing space)
C9_TrailingSpace ==
    /\ enc = "set_loss_table_value"
    /\ args = <<>>
    /\ ret = <<"L", "O", "S", "S", "T", "B", "L", "V", "A", "L", " ">>

(***************************************************************************)
(* C10.  A query encoder with an optional suffix mode returns exactly      *)
(* "OPERATION?" when the mode is absent and "OPERATION? mode" when it is   *)
(* present: the mode follows the "?" after exactly one space, never after  *)
(* a comma.                                                                *)
(***************************************************************************)
C10_SuffixMode ==
    enc \in ModeQueries =>
        LET op == OperationToken(enc)
        IN  /\ SubSeq(ret, 1, Len(op)) = op
            /\ op[Len(op)] = "?"
            /\ args[1] = PyText(<<>>) => ret = op
            /\ args[1] # PyText(<<>>) =>
                   /\ ret[Len(op) + 1] = " "
                   /\ SubSeq(ret, Len(op) + 2, Len(ret)) = args[1].s
            /\ CountChar(ret, ",") = 0
            /\ CountChar(ret, " ") = IF args[1] = PyText(<<>>) THEN 0 ELSE 1

\* query_pct_power_e1("SUM") was called and returned "PCTPWRE1? SUM"
C10_PctPowerSum ==
    /\ enc = "query_pct_power_e1"
    /\ args = <<PyText(<<"S", "U", "M">>)>>
    /\ ret = <<"P", "C", "T", "P", "W", "R", "E", "1", "?", " ", "S", "U", "M">>

(***************************************************************************)
(* Vocabulary of the Sessions' properties.                                 *)
(***************************************************************************)
\* invocation i of the caller has completed
Completed(i) == i <= Len(outcomes)

\* the operations of wire the transport has not answered yet
InFlight == Len(wire) - Len(answers)

(***************************************************************************)
(* C11.  Session.query, of MT8000A and of MT8821C alike, performs exactly  *)
(* one transport query, carrying exactly the command text the caller       *)
(* passed, and returns the transport's reply with the leading and trailing *)
(* whitespace removed and nothing else changed.                            *)
(***************************************************************************)
C11_AskReturnsTrimmedReply ==
    /\ Len(wire) = Len(issued)
    /\ \A i \in 1..Len(issued) :
           issued[i].op = "query" =>
               /\ wire[i] = [op |-> "query", cmd |-> issued[i].cmd]
               /\ (i <= Len(answers) /\ answers[i].kind = "reply") =>
                      /\ Completed(i)
                      /\ outcomes[i] = [kind |-> "return",
                                        value |-> PyText(Trimmed(answers[i].raw)),
                                        exc |-> ""]

\* MT8821C.query was answered " 1 0\r\n" and returned "1 0"
C11_PaddedReply ==
    \E i \in 1..Len(outcomes) :
        /\ issued[i].via = "MT8821C"
        /\ issued[i].op = "query"
        /\ answers[i].raw = <<" ", "1", " ", "0", "\r", "\n">>
        /\ outcomes[i].kind = "return"
        /\ outcomes[i].value = PyText(<<"1", " ", "0">>)

(***************************************************************************)
(* C12.  Session.write performs exactly one transport write carrying       *)
(* exactly the caller's command text, reads no reply, and returns no       *)
(* value (None).                                                           *)
(***************************************************************************)
C12_SendIsOneWrite ==
    /\ Len(wire) = Len(issued)
    /\ \A i \in 1..Len(issued) :
           issued[i].op = "write" =>
               /\ wire[i] = [op |-> "write", cmd |-> issued[i].cmd]
               /\ i <= Len(answers) => answers[i].kind # "reply"
               /\ (i <= Len(answers) /\ answers[i].kind = "ok") =>
                      /\ Completed(i)
                      /\ outcomes[i] = [kind |-> "return", value |-> None, exc |-> ""]
    /\ Len(replies) = Cardinality({i \in 1..Len(issued) :
                                      /\ issued[i].op = "query"
                                      /\ i <= Len(answers)
                                      /\ answers[i].kind = "reply"})

\* MT8000A.write sent "REM_DEST 8821C" and returned None with no reply read
C12_WriteReturnedNone ==
    /\ Len(outcomes) = 1
    /\ issued[1].via = "MT8000A"
    /\ issued[1].op = "write"
    /\ wire[1].cmd = <<"R", "E", "M", "_", "D", "E", "S", "T", " ", "8", "8", "2", "1", "C">>
    /\ outcomes[1].kind = "return"
    /\ outcomes[1].value = None
    /\ replies = <<>>

(***************************************************************************)
(* C13.  A failure of the transport reaches the caller of write or query   *)
(* as the same exception, and the invocation made exactly one transport    *)
(* attempt: no retry, no substitute value.                                 *)
(***************************************************************************)
C13_FailurePropagates ==
    /\ Len(wire) = Len(issued)
    /\ Len(answers) = Len(outcomes)
    /\ \A i \in 1..Len(answers) :
           answers[i].kind = "raise" =>
               outcomes[i] = [kind |-> "raise", value |-> None, exc |-> answers[i].exc]

\* a query timed out in the transport: the caller got TimeoutError after
\* one attempt
C13_TimeoutReachedCaller ==
    /\ Len(wire) = 1
    /\ issued[1].op = "query"
    /\ Len(answers) = 1
    /\ answers[1] = [kind |-> "raise", raw |-> <<>>, exc |-> "TimeoutError"]
    /\ Len(outcomes) = 1
    /\ outcomes[1].kind = "raise"
    /\ outcomes[1].exc = "TimeoutError"

(***************************************************************************)
(* C14.  The sequence of commands the transport observes is the sequence   *)
(* the caller issued, in the same order, with nothing added, dropped,      *)
(* duplicated or reordered; in particular "*OPC?" is on the wire only      *)
(* where the caller issued it.                                             *)
(***************************************************************************)
C14_WireIsIssuedSequence ==
    /\ [i \in 1..Len(wire) |-> wire[i].cmd] = [i \in 1..Len(issued) |-> issued[i].cmd]
    /\ [i \in 1..Len(wire) |-> wire[i].op] = [i \in 1..Len(issued) |-> issued[i].op]
    /\ \A i \in 1..Len(wire) :
           wire[i].cmd = <<"*", "O", "P", "C", "?">> =>
               i <= Len(issued) /\ issued[i].enc = "opc"

\* "REM_DEST 8821C" was written through MT8821C, then "REM_DEST 8000A"
\* through MT8000A: the wire holds the two in that order and no barrier
C14_TwoInOrder ==
    /\ Len(outcomes) = 2
    /\ issued[1].via = "MT8821C"
    /\ issued[2].via = "MT8000A"
    /\ wire = <<[op |-> "write", cmd |-> <<"R", "E", "M", "_", "D", "E", "S", "T", " ", "8", "8", "2", "1", "C">>],
                [op |-> "write", cmd |-> <<"R", "E", "M", "_", "D", "E", "S", "T", " ", "8", "0", "0", "0", "A">>]>>

(***************************************************************************)
(* Vocabulary of the workflows' properties.                                *)
(***************************************************************************)
\* the barrier: the query "*OPC?"
IsBarrier(o) == o = [op |-> "query", cmd |-> <<"*", "O", "P", "C", "?">>]

\* the full-reset commands
FullResets == {<<"P", "R", "E", "S", "E", "T">>, <<"P", "R", "E", "S", "E", "T", "_", "S", "A">>}

(***************************************************************************)
(* C15.  In every example workflow the barrier query "*OPC?" is issued     *)
(* after each full reset (PRESET, PRESET_SA) before the next command,      *)
(* before the call-connection request CALLSA, and after the measurement    *)
(* sweep SWP before a result is queried.                                   *)
(***************************************************************************)
C15_BarrierAtCallSites ==
    \A i \in 1..Len(wire) :
        /\ (wire[i].cmd \in FullResets /\ i < Len(wire)) => IsBarrier(wire[i + 1])
        /\ wire[i].cmd = <<"C", "A", "L", "L", "S", "A">> => \E j \in 1..(i - 1) : IsBarrier(wire[j])
        /\ (wire[i].cmd = <<"S", "W", "P">> /\ i < Len(wire)) => IsBarrier(wire[i + 1])

\* example_sa_power_measurement has written PRESET_SA and, next, RANOP SA
C15_ResetThenNextCommand ==
    /\ flow = "example_sa_power_measurement"
    /\ wire = <<[op |-> "write", cmd |-> <<"P", "R", "E", "S", "E", "T", "_", "S", "A">>],
                [op |-> "write", cmd |-> <<"R", "A", "N", "O", "P", " ", "S", "A">>]>>

FixedArityEncoders ==
    {"set_ran_operation", "set_remote_destination", "set_test_interface", "set_system_select",
     "set_band", "set_dl_bandwidth", "set_early_decision", "MT8821C_set_band",
     "MT8821C_set_bandwidth"}

(***************************************************************************)
(* C18.  No validation, no failure: a fixed-arity encoder over strings and *)
(* numbers returns, for every argument value, recognised by the instrument *)
(* or not, in range or not, the operation name, one space, and every       *)
(* argument verbatim in its position with commas between them;             *)
(* set_dl_bandwidth("PCC", "100MHZ") returns "DLBANDWIDTH PCC,100MHZ".     *)
(***************************************************************************)
C18_VerbatimArguments ==
    enc \in FixedArityEncoders =>
        /\ ret = OperationToken(enc) \o <<" ">> \o ArgumentList(args)
        /\ CountChar(SubSeq(ret, 1, Len(OperationToken(enc)) + 1), " ") = 1
        /\ (enc = "set_dl_bandwidth" /\ args = <<PyText(<<"P", "C", "C">>), PyText(<<"1", "0", "0", "M", "H", "Z">>)>>) =>
               ret = <<"D", "L", "B", "A", "N", "D", "W", "I", "D", "T", "H", " ", "P", "C", "C", ",", "1", "0", "0", "M", "H", "Z">>

\* set_dl_bandwidth("SCC9", "100mhz"), a carrier and a bandwidth the
\* instrument does not know, returned "DLBANDWIDTH SCC9,100mhz"
C18_UnrecognisedEnumerants ==
    /\ enc = "set_dl_bandwidth"
    /\ args = <<PyText(<<"S", "C", "C", "9">>), PyText(<<"1", "0", "0", "m", "h", "z">>)>>
    /\ ret = <<"D", "L", "B", "A", "N", "D", "W", "I", "D", "T", "H", " ", "S", "C", "C", "9", ",", "1", "0", "0", "m", "h", "z">>

\* the command selects a remote destination
IsRemDest(cmd) ==
    /\ Len(cmd) >= 9
    /\ SubSeq(cmd, 1, 9) = <<"R", "E", "M", "_", "D", "E", "S", "T", " ">>

\* the destination the last REM_DEST command before operation i selected,
\* the empty text if there was none
LastDestination(i) ==
    LET sel == {j \in 1..(i - 1) : IsRemDest(wire[j].cmd)}
    IN  IF sel = {} THEN <<>>
        ELSE LET last == CHOOSE j \in sel : \A k \in sel : k <= j
             IN  SubSeq(wire[last].cmd, 10, Len(wire[last].cmd))

(***************************************************************************)
(* C19.  Routing is neither tracked nor enforced: a write or query on      *)
(* either Session class forwards the caller's command to the shared        *)
(* transport whatever destination the last REM_DEST selected, and a        *)
(* REM_DEST command is on the wire only where the caller issued it.        *)
(***************************************************************************)
C19_RoutingNotEnforced ==
    /\ Len(wire) = Len(issued)
    /\ \A i \in 1..Len(issued) :
           \A d \in {<<>>, <<"8", "0", "0", "0", "A">>, <<"8", "8", "2", "1", "C">>} :
               LastDestination(i) = d =>
                   /\ wire[i].cmd = issued[i].cmd
                   /\ IsRemDest(wire[i].cmd) => issued[i].enc = "set_remote_destination"

\* with 8821C selected by the last REM_DEST, "*OPC?" was queried through
\* the MT8000A Session: it went to the transport and the reply came back
C19_ForwardedToOtherDestination ==
    /\ Len(outcomes) = 2
    /\ LastDestination(2) = <<"8", "8", "2", "1", "C">>
    /\ issued[2].via = "MT8000A"
    /\ wire[2] = [op |-> "query", cmd |-> <<"*", "O", "P", "C", "?">>]
    /\ outcomes[2].kind = "return"

TransportAccepts == \A i \in 1..Len(answers) : answers[i].kind # "raise"

\* the run of example f is over
Ended(f) == flow = f /\ step = 0

\* operations o1, o2 are on the wire, in this order, next to each other
WroteInSequence(o1, o2) ==
    \E i \in 1..(Len(wire) - 1) : wire[i] = o1 /\ wire[i + 1] = o2

(***************************************************************************)
(* C21.  The call-setup usage works end to end: MT8000A offers             *)
(* wait_for_call_connected, so a run of example_sa_power_measurement       *)
(* against a transport that accepts everything gets past the call          *)
(* connection, writes SWP, queries MSTAT? and POWER?, and returns its      *)
(* result dict.                                                            *)
(***************************************************************************)
C21_CallSetupEndToEnd ==
    (Ended("example_sa_power_measurement") /\ TransportAccepts) =>
        /\ raised = "none"
        /\ result = "returned"
        /\ \E i, j, k \in 1..Len(wire) :
               /\ i < j /\ j < k
               /\ wire[i] = [op |-> "write", cmd |-> <<"S", "W", "P">>]
               /\ wire[j] = [op |-> "query", cmd |-> <<"M", "S", "T", "A", "T", "?">>]
               /\ wire[k] = [op |-> "query", cmd |-> <<"P", "O", "W", "E", "R", "?">>]

\* example_sa_power_measurement wrote its 25 commands up to CALLSA, all
\* accepted, and ended in AttributeError at the call of the poller
C21_StoppedAtPoller ==
    /\ Ended("example_sa_power_measurement")
    /\ TransportAccepts
    /\ Len(wire) = 25
    /\ wire[25] = [op |-> "write", cmd |-> <<"C", "A", "L", "L", "S", "A">>]
    /\ raised = "AttributeError"
    /\ result = "none"

(***************************************************************************)
(* C22.  In the workflows a measurement enable with an averaging count     *)
(* reaches the transport as two writes next to each other:                 *)
(* example_sa_power_measurement writes "PWR_MEAS ON" and then "PWR_AVG 1", *)
(* after ALLMEASITEMS_OFF and before SWP;                                  *)
(* example_nsa_endc_evm_measurement writes "MOD_MEAS ON" and then          *)
(* "MOD_AVG 20".                                                           *)
(***************************************************************************)
C22_AveragingAsTwoWrites ==
    /\ (Ended("example_sa_power_measurement") /\ TransportAccepts) =>
           /\ WroteInSequence([op |-> "write", cmd |-> <<"P", "W", "R", "_", "M", "E", "A", "S", " ", "O", "N">>],
                              [op |-> "write", cmd |-> <<"P", "W", "R", "_", "A", "V", "G", " ", "1">>])
           /\ \E i, j, k \in 1..Len(wire) :
                  /\ i < j /\ j < k
                  /\ wire[i].cmd = <<"A", "L", "L", "M", "E", "A", "S", "I", "T", "E", "M", "S", "_", "O", "F", "F">>
                  /\ wire[j].cmd = <<"P", "W", "R", "_", "M", "E", "A", "S", " ", "O", "N">>
                  /\ wire[k].cmd = <<"S", "W", "P">>
    /\ (Ended("example_nsa_endc_evm_measurement") /\ TransportAccepts) =>
           WroteInSequence([op |-> "write", cmd |-> <<"M", "O", "D", "_", "M", "E", "A", "S", " ", "O", "N">>],
                           [op |-> "write", cmd |-> <<"M", "O", "D", "_", "A", "V", "G", " ", "2", "0">>])

\* example_nsa_endc_evm_measurement is over with nothing written, and the
\* one statement it has for the enable would write "MOD_MEAS ONMOD_AVG 20"
C22_NothingWrittenAndFused ==
    /\ Ended("example_nsa_endc_evm_measurement")
    /\ wire = <<>>
    /\ \E k \in 1..Len(example_nsa_endc_evm_measurement) :
           example_nsa_endc_evm_measurement[k] =
               [kind |-> "write", cmd |-> <<"M", "O", "D", "_", "M", "E", "A", "S", " ", "O", "N", "M", "O", "D", "_", "A", "V", "G", " ", "2", "0">>]
    /\ \E k \in 1..Len(example_sa_power_measurement) :
           example_sa_power_measurement[k] =
               [kind |-> "write", cmd |-> <<"P", "W", "R", "_", "M", "E", "A", "S", " ", "O", "N", "P", "W", "R", "_", "A", "V", "G", " ", "1">>]

Establishes(raw) ==
    /\ DenotesConnected(raw)
    /\ Trimmed(raw) # <<"N", "O", "T", "_", "C", "O", "N", "N", "E", "C", "T", "E", "D">>

ConnectedPoll(i) ==
    /\ wire[i] = [op |-> "query", cmd |-> <<"C", "A", "L", "L", "S", "T", "A", "T", "?">>]
    /\ i <= Len(answers)
    /\ answers[i].kind = "reply"
    /\ DenotesConnected(answers[i].raw)

\* the commands the call-setup examples send once the call is connected
AfterConnection ==
    {<<"A", "L", "L", "M", "E", "A", "S", "I", "T", "E", "M", "S", "_", "O", "F", "F">>, <<"S", "W", "P">>, <<"M", "S", "T", "A", "T", "?">>, <<"P", "O", "W", "E", "R", "?">>, <<"E", "V", "M", "?">>, <<"C", "A", "R", "R", "L", "E", "A", "K", "?">>,
     <<"P", "W", "R", "_", "M", "E", "A", "S", " ", "O", "N", "P", "W", "R", "_", "A", "V", "G", " ", "1">>, <<"M", "O", "D", "_", "M", "E", "A", "S", " ", "O", "N", "M", "O", "D", "_", "A", "V", "G", " ", "2", "0">>, <<"P", "W", "R", "_", "M", "E", "A", "S", " ", "O", "N">>, <<"M", "O", "D", "_", "M", "E", "A", "S", " ", "O", "N">>}

(***************************************************************************)
(* C26.  The call-setup workflows check the poller's result: when the      *)
(* connection wait reports failure, example_sa_power_measurement and       *)
(* example_nsa_endc_evm_measurement raise RuntimeError and write no later  *)
(* command (ALLMEASITEMS_OFF, measurement enables, SWP, result queries);   *)
(* those commands are written only after the wait reported success.        *)
(***************************************************************************)
C26_WorkflowChecksPoller ==
    \A f \in {"example_sa_power_measurement", "example_nsa_endc_evm_measurement"} :
        /\ (Ended(f) /\ TransportAccepts /\ result # "returned") => raised = "RuntimeError"
        /\ flow = f =>
               \A i \in 1..Len(wire) :
                   wire[i].cmd \in AfterConnection => \E j \in 1..(i - 1) : ConnectedPoll(j)

\* example_sa_power_measurement ended after CALLSA without one poll of the
\* call status, by an exception that is not RuntimeError
C26_EndedWithoutVerdict ==
    /\ Ended("example_sa_power_measurement")
    /\ TransportAccepts
    /\ wire[Len(wire)].cmd = <<"C", "A", "L", "L", "S", "A">>
    /\ \A i \in 1..Len(wire) : wire[i].cmd # <<"C", "A", "L", "L", "S", "T", "A", "T", "?">>
    /\ raised \notin {"none", "RuntimeError"}

\* the operation name of a command: its text before the first space
Operation(cmd) == Fields(cmd, {" "})[1]

\* the operations example_nsa_endc_evm_measurement builds with MT8821C
\* (its BAND takes one argument, MT8000A's two)
BuiltByMT8821C(cmd) ==
    \/ cmd = <<"P", "R", "E", "S", "E", "T">>
    \/ Operation(cmd) \in {<<"C", "A", "L", "L", "P", "R", "O", "C">>, <<"B", "A", "N", "D", "W", "I", "D", "T", "H">>, <<"S", "I", "M", "M", "O", "D", "E", "L", "N", "U", "M">>, <<"I", "N", "T", "E", "G", "R", "I", "T", "Y">>}
    \/ Operation(cmd) = <<"B", "A", "N", "D">> /\ CountChar(cmd, ",") = 0

(***************************************************************************)
(* C27.  Routing order in the NSA workflow:                                *)
(* example_nsa_endc_evm_measurement constructs its MT8821C view, and       *)
(* every command built by MT8821C is written while the last REM_DEST       *)
(* write selected 8821C, every command built by MT8000A other than         *)
(* REM_DEST while it selected 8000A (CALLSA is built by both, once under   *)
(* each destination).                                                      *)
(***************************************************************************)
C27_RoutingOrder ==
    flow = "example_nsa_endc_evm_measurement" =>
        /\ raised # "TypeError"
        /\ (Ended("example_nsa_endc_evm_measurement") /\ TransportAccepts) => Len(wire) > 0
        /\ \A i \in 1..Len(wire) :
               IF IsRemDest(wire[i].cmd) THEN TRUE
               ELSE IF wire[i].cmd = <<"C", "A", "L", "L", "S", "A">>
                    THEN LastDestination(i) \in {<<"8", "8", "2", "1", "C">>, <<"8", "0", "0", "0", "A">>}
               ELSE IF BuiltByMT8821C(wire[i].cmd)
                    THEN LastDestination(i) = <<"8", "8", "2", "1", "C">>
               ELSE LastDestination(i) = <<"8", "0", "0", "0", "A">>

\* example_nsa_endc_evm_measurement ended in TypeError at MT8821C() before
\* its first write
C27_NoMT8821CView ==
    /\ Ended("example_nsa_endc_evm_measurement")
    /\ raised = "TypeError"
    /\ wire = <<>>
    /\ answers = <<>>

(***************************************************************************)
(* C28.  Every on/off command the workflows write carries the literal      *)
(* token ON or OFF, never a rendered Boolean such as "True"; the           *)
(* early-decision enable of example_rx_throughput_measurement is           *)
(* "EARLY_DECISION ON" and its reset "EARLY_DECISION OFF".                 *)
(***************************************************************************)
C28_OnOffLiteralInWorkflows ==
    \A i \in 1..Len(wire) :
        /\ \A k \in 1..Len(Tokens(wire[i].cmd)) :
               Tokens(wire[i].cmd)[k] \notin {<<"T", "r", "u", "e">>, <<"F", "a", "l", "s", "e">>}
        /\ Operation(wire[i].cmd) = <<"E", "A", "R", "L", "Y", "_", "D", "E", "C", "I", "S", "I", "O", "N">> =>
               wire[i].cmd \in {<<"E", "A", "R", "L", "Y", "_", "D", "E", "C", "I", "S", "I", "O", "N", " ", "O", "N">>, <<"E", "A", "R", "L", "Y", "_", "D", "E", "C", "I", "S", "I", "O", "N", " ", "O", "F", "F">>}
        /\ (flow = "example_rx_throughput_measurement" /\ i = 4) => wire[i].cmd = <<"E", "A", "R", "L", "Y", "_", "D", "E", "C", "I", "S", "I", "O", "N", " ", "O", "N">>

\* example_rx_throughput_measurement wrote "EARLY_DECISION True" as its
\* fourth command
C28_RenderedBoolean ==
    /\ flow = "example_rx_throughput_measurement"
    /\ Len(wire) >= 4
    /\ wire[4] = [op |-> "write", cmd |-> <<"E", "A", "R", "L", "Y", "_", "D", "E", "C", "I", "S", "I", "O", "N", " ", "T", "r", "u", "e">>]

\* text ends with suffix
EndsWith(text, suffix) ==
    /\ Len(text) >= Len(suffix)
    /\ SubSeq(text, Len(text) - Len(suffix) + 1, Len(text)) = suffix

(***************************************************************************)
(* C29.  Optional numeric arguments are tested for absence, not for        *)
(* truth: a supplied 0 is emitted like any other number.                   *)
(* query_system_select(0) returns "SYSSEL? 0", set_input_level(c, 0)       *)
(* returns "ILVL c,0", set_box2_slot(slot, trx, 0) ends in ",0", and the   *)
(* measurement-enable encoders produce their averaging part for avg = 0    *)
(* as for any other count; only an argument that was not supplied is left  *)
(* out.                                                                    *)
(***************************************************************************)
C29_AbsenceNotTruthiness ==
    /\ enc = "query_system_select" =>
           ret = IF args[1] = None
                 THEN <<"S", "Y", "S", "S", "E", "L", "?">>
                 ELSE <<"S", "Y", "S", "S", "E", "L", "?">> \o <<" ">> \o Format(args[1])
    /\ enc = "set_input_level" =>
           ret = IF args[2] = None
                 THEN <<"I", "L", "V", "L", " ">> \o Format(args[1])
                 ELSE <<"I", "L", "V", "L", " ">> \o Format(args[1]) \o <<",">> \o Format(args[2])
    /\ enc = "set_box2_slot" =>
           IF args[3] = None
           THEN CountChar(ret, ",") = 0
           ELSE EndsWith(ret, <<",">> \o Format(args[3]))
    /\ enc \in AvgEncoders =>
           IF args[2] = None
           THEN Len(Tokens(ret)) = 2
           ELSE EndsWith(ret, AveragingToken(enc) \o <<" ">> \o Format(args[2]))

\* query_system_select(0) was called and returned "SYSSEL? 0"
C29_SystemSelectZero ==
    /\ enc = "query_system_select"
    /\ args = <<PyInt(0)>>
    /\ ret = <<"S", "Y", "S", "S", "E", "L", "?", " ", "0">>

(***************************************************************************)
(* C30.  set_box2_slot ignores its slot argument: for every slot, trx and  *)
(* value it returns "BOX2_SLOT1 trx" or "BOX2_SLOT1 trx,value", the same   *)
(* for any two slots, so the command token always names slot 1.            *)
(***************************************************************************)
C30_SlotIgnored ==
    enc = "set_box2_slot" =>
        ret = IF args[3] = None
              THEN <<"B", "O", "X", "2", "_", "S", "L", "O", "T", "1", " ">> \o Format(args[2])
              ELSE <<"B", "O", "X", "2", "_", "S", "L", "O", "T", "1", " ">> \o Format(args[2]) \o <<",">> \o Format(args[3])

\* set_box2_slot("SLOT2", "TRX1") was called and returned "BOX2_SLOT1 TRX1"
C30_Slot2NamedSlot1 ==
    /\ enc = "set_box2_slot"
    /\ args = <<PyText(<<"S", "L", "O", "T", "2">>), PyText(<<"T", "R", "X", "1">>), None>>
    /\ ret = <<"B", "O", "X", "2", "_", "S", "L", "O", "T", "1", " ", "T", "R", "X", "1">>

====
